---- MODULE Spec2Model ----
(***************************************************************************)
(* Model of the data-cleaning pipeline of ClariData:                       *)
(*   Utils/automatic_data_processing.py  (missing-value engine)            *)
(*   Utils/outlier_utils.py              (outlier engine)                  *)
(*   app.py                              (the page handlers calling them)  *)
(*   AI_helper.py, Utils/chat.py         (AI context and conversation)     *)
(*                                                                         *)
(* A DataFrame is a record                                                 *)
(*   columns : sequence of column labels (column order)                    *)
(*   index   : sequence of row labels (row order)                          *)
(*   dtypes  : column label -> dtype                                       *)
(*   data    : column label -> (row label -> cell)                         *)
(* Python objects live in `heap`; variables of the program hold            *)
(* references, so df.copy() and inplace=True are modelled as what they     *)
(* are: a new object, and a write to an existing one.                      *)
(*                                                                         *)
(* Numbers: cells are integers (NaN is a value outside the data range).    *)
(* Percentages are compared exactly (miss*100 against threshold*total);    *)
(* a percentage rounded to one decimal is held in tenths of a percent.     *)
(* Input cells are even integers, so a median (the mean of the two middle  *)
(* values) is an integer and is held exactly.                              *)
(***************************************************************************)
EXTENDS Integers, Sequences, FiniteSets, TLC

\* ------------------------------------------------------------------ bounds
\* rows of the dataset the missing-value engine is first called with
MaxRows == 24
\* handler invocations in one behaviour
MaxOps == 2
\* rows of the first dataset, and handler invocations in one behaviour,
\* where both engines run
EngineRows == 6
MaxEngineOps == 1
\* rows of the dataset one operation is called with
CallRows == 6
\* rows of the longer dataset one operation is called with
SkewRows == 10
\* messages in AI_helper.chat_history
MaxChat == 5

\* ------------------------------------------------------------- constants
\* standard_auto_cleaning: pct < 5 -> drop rows
DropRowsPct == 5
\* standard_auto_cleaning: pct < 20 -> fill
FillPct == 20
\* standard_auto_cleaning: pct >= 50 -> drop column
DropColPct == 50
\* is_categorical: series.nunique() < 20
CategoricalNunique == 20

\* Python's None (falsy); column labels are non-empty strings (truthy)
None == "None"
\* a missing cell
NaN == -1
\* the cell the text "unknown" is held as, and the one a typed text is
UnknownText == 101
TypedText == 100
\* no object
Null == [columns |-> <<>>, index |-> <<>>, dtypes |-> <<>>, data |-> <<>>, null |-> TRUE]

Labels == <<"a", "b", "c">>
LabelSet == {Labels[i] : i \in 1..Len(Labels)}
Refs == 1..4

Range(s) == {s[i] : i \in 1..Len(s)}
Last(s) == s[Len(s)]

\* bool(x) of a label-or-None
Truthy(x) == x # None /\ x # ""

\* a dict: {}, dct.get(k) and dct[k] = v
EmptyDict == [k \in {} |-> None]
Get(dct, k) == IF k \in DOMAIN dct THEN dct[k] ELSE None
Put(dct, k, v) == [x \in DOMAIN dct \cup {k} |-> IF x = k THEN v ELSE dct[x]]

\* ------------------------------------------------------------ pandas layer
\* the Series df[col]: row label -> cell
Col(d, col) == d.data[col]
Rows(d) == Range(d.index)
\* len(df)
LenDf(d) == Len(d.index)
\* series.isna().sum()
IsnaSum(d, col) == Cardinality({r \in Rows(d) : d.data[col][r] = NaN})
\* the non-missing cells of a column, as a set of rows
NotNa(d, col) == {r \in Rows(d) : d.data[col][r] # NaN}
\* series.nunique(): distinct non-missing values
Nunique(d, col) == Cardinality({d.data[col][r] : r \in NotNa(d, col)})
\* pd.api.types.is_numeric_dtype
IsNumericDtype(d, col) == d.dtypes[col] \in {"float64", "int64"}

\* k-th smallest (1-based) non-missing value of a column
Kth(d, col, k) ==
    LET nn == NotNa(d, col)
        s  == d.data[col]
    IN CHOOSE v \in {s[r] : r \in nn} :
          /\ Cardinality({r \in nn : s[r] < v}) < k
          /\ Cardinality({r \in nn : s[r] <= v}) >= k

\* series.median(): NaN skipped; the mean of the two middle values when the
\* count is even; NaN for an all-missing series
Median(d, col) ==
    LET n == Cardinality(NotNa(d, col))
    IN IF n = 0 THEN NaN
       ELSE IF n % 2 = 1 THEN Kth(d, col, (n + 1) \div 2)
       ELSE (Kth(d, col, n \div 2) + Kth(d, col, n \div 2 + 1)) \div 2

\* series.mode(): the most frequent non-missing values, sorted ascending;
\* as a set (empty for an all-missing series)
ModeSet(d, col) ==
    LET nn == NotNa(d, col)
        s  == d.data[col]
        cnt(v) == Cardinality({r \in nn : s[r] = v})
    IN {v \in {s[r] : r \in nn} : \A w \in {s[r] : r \in nn} : cnt(w) <= cnt(v)}

\* mode[0]: the smallest of the most frequent values
Mode0(d, col) == CHOOSE v \in ModeSet(d, col) : \A w \in ModeSet(d, col) : v <= w

\* df.dropna(subset=subset): the rows with no missing cell in subset
Dropna(d, subset) ==
    LET keep(r) == \A c \in subset : d.data[c][r] # NaN
        idx == SelectSeq(d.index, keep)
    IN [d EXCEPT !.index = idx,
                 !.data = [c \in DOMAIN d.data |-> [r \in Range(idx) |-> d.data[c][r]]]]

\* df.drop(columns=cols)
DropColumns(d, cols) ==
    LET keep(c) == c \notin cols
        cs == SelectSeq(d.columns, keep)
    IN [d EXCEPT !.columns = cs,
                 !.dtypes = [c \in Range(cs) |-> d.dtypes[c]],
                 !.data = [c \in Range(cs) |-> d.data[c]]]

\* df[col].fillna(val): missing cells of col become val
Fillna(d, col, val) ==
    [d EXCEPT !.data[col] = [r \in Rows(d) |-> IF d.data[col][r] = NaN THEN val ELSE d.data[col][r]]]

\* round(x, 1) of x = 100*num/den, in tenths (round half to even)
Round1(num, den) ==
    LET n == 1000 * num
        q == n \div den
        r == n % den
    IN IF 2 * r < den THEN q
       ELSE IF 2 * r > den THEN q + 1
       ELSE IF q % 2 = 0 THEN q ELSE q + 1

\* sum of f over the set S
RECURSIVE SumF(_, _)
SumF(f, S) ==
    IF S = {} THEN 0
    ELSE LET r == CHOOSE x \in S : TRUE IN f[r] + SumF(f, S \ {r})

\* a/b < c/d for a, c >= 0 and b, d > 0, without forming the products
RECURSIVE FracLess(_, _, _, _)
FracLess(a, b, c, d) ==
    IF a \div b # c \div d THEN a \div b < c \div d
    ELSE IF c % d = 0 THEN FALSE
    ELSE IF a % b = 0 THEN TRUE
    ELSE FracLess(d, c % d, b, a % b)

Abs(x) == IF x < 0 THEN -x ELSE x

\* series.mean() on the integer grid of the model (NaN skipped; NaN for an
\* all-missing series); exact when the sum is a multiple of the count
Mean(d, col) ==
    LET nn == NotNa(d, col)
    IN IF nn = {} THEN NaN ELSE SumF(d.data[col], nn) \div Cardinality(nn)

\* series.dropna().quantile(q) for q = qn/qd, times qd (linear
\* interpolation between the order statistics around (n-1)*q)
QuantileTimes(d, col, qn, qd) ==
    LET n  == Cardinality(NotNa(d, col))
        h  == (n - 1) * qn
        lo == h \div qd
        fr == h % qd
    IN IF fr = 0 THEN qd * Kth(d, col, lo + 1)
       ELSE qd * Kth(d, col, lo + 1) + fr * (Kth(d, col, lo + 2) - Kth(d, col, lo + 1))

\* the IQR bounds of a column, times 2*qd:
\* lower = Q1 - 1.5*IQR, upper = Q3 + 1.5*IQR
IqrLower(d, col, ql, qh, qd) ==
    2 * QuantileTimes(d, col, ql, qd)
      - 3 * (QuantileTimes(d, col, qh, qd) - QuantileTimes(d, col, ql, qd))
IqrUpper(d, col, ql, qh, qd) ==
    2 * QuantileTimes(d, col, qh, qd)
      + 3 * (QuantileTimes(d, col, qh, qd) - QuantileTimes(d, col, ql, qd))

RECURSIVE Gcd(_, _)
Gcd(a, b) == IF b = 0 THEN a ELSE Gcd(b, a % b)
\* the greatest common divisor of |f[r]|, r in S (0 when all are 0)
RECURSIVE GcdF(_, _)
GcdF(f, S) ==
    IF S = {} THEN 0
    ELSE LET r == CHOOSE x \in S : TRUE IN Gcd(Abs(f[r]), GcdF(f, S \ {r}))

\* n*x - sum for the non-missing cells: the deviation from the mean, times n,
\* in units of the greatest common divisor of the deviations (z-scores and
\* skewness do not depend on the unit)
Dev(d, col) ==
    LET nn  == NotNa(d, col)
        n   == Cardinality(nn)
        sm  == SumF(d.data[col], nn)
        raw == [r \in nn |-> n * d.data[col][r] - sm]
        g   == GcdF(raw, nn)
    IN [r \in nn |-> IF g = 0 THEN 0 ELSE raw[r] \div g]
\* the sums of the squares and of the cubes of Dev
M2(d, col) == LET dv == Dev(d, col) IN SumF([r \in DOMAIN dv |-> dv[r] * dv[r]], DOMAIN dv)
M3(d, col) == LET dv == Dev(d, col) IN SumF([r \in DOMAIN dv |-> dv[r] * dv[r] * dv[r]], DOMAIN dv)

\* `sigma == 0 or pd.isna(sigma)` for sigma = series.std() (ddof = 1)
StdZeroOrNaN(d, col) == Cardinality(NotNa(d, col)) < 2 \/ M2(d, col) = 0

\* the rows with |x - mu| / sigma > z_thresh, z_thresh in tenths
\* (z*z = Dev^2 * (n-1) / M2)
ZscoreRows(d, col, z10) ==
    LET dv == Dev(d, col)
        n  == Cardinality(DOMAIN dv)
        m2 == M2(d, col)
    IN {r \in DOMAIN dv : dv[r] * dv[r] * (n - 1) * 100 > z10 * z10 * m2}

\* abs(skew(s)) < 1 for scipy.stats.skew (biased: m3 / m2^1.5), i.e.
\* n * M3^2 < M2^3, i.e. n * (M3/M2)^2 < M2, settled by the integer part k
\* of M3/M2 where that suffices; for a constant series skew is NaN or 0,
\* depending on the scipy release: const_is_nan says which
SkewBelowOne(d, col, const_is_nan) ==
    LET n  == Cardinality(NotNa(d, col))
        m2 == M2(d, col)
        m3 == Abs(M3(d, col))
        k  == m3 \div m2
    IN IF m2 = 0 THEN ~const_is_nan
       ELSE IF m3 = 0 THEN TRUE
       ELSE IF n * k * k >= m2 THEN FALSE
       ELSE IF n * (k + 1) * (k + 1) <= m2 THEN TRUE
       ELSE FracLess(n * m3, m2, m2 * m2, m3)

\* df.loc[keep].reset_index(drop=True): the rows of keep, labelled anew
LocResetIndex(d, keep) ==
    LET in(r) == r \in keep
        idx == SelectSeq(d.index, in)
    IN [d EXCEPT !.index = [k \in 1..Len(idx) |-> k],
                 !.data = [c \in DOMAIN d.data |-> [k \in 1..Len(idx) |-> d.data[c][idx[k]]]]]

\* df.loc[keep]: the rows of keep, in order
Loc(d, keep) ==
    LET in(r) == r \in keep
        idx == SelectSeq(d.index, in)
    IN [d EXCEPT !.index = idx,
                 !.data = [c \in DOMAIN d.data |-> [r \in Range(idx) |-> d.data[c][r]]]]

\* df.select_dtypes(include="number").columns.tolist()
NumericCols(d) == SelectSeq(d.columns, LAMBDA c : IsNumericDtype(d, c))

\* ------------------------------------------------------------ exceptions
\* df[label] / dropna(subset=labels) / drop(columns=labels): KeyError for a
\* label that is no column
KeyErr(d, labels) ==
    IF \E c \in labels : c \notin Range(d.columns) THEN "KeyError" ELSE None

\* quantile, mean, std, np.percentile of df[col]: KeyError for a label that
\* is no column, TypeError for a column that holds text
NumericErr(d, col) ==
    IF col \notin Range(d.columns) THEN "KeyError"
    ELSE IF ~IsNumericDtype(d, col) THEN "TypeError"
    ELSE None

\* the exception of the first pass of `for col in cols` that raises one
RECURSIVE FirstErr(_, _, _)
FirstErr(d, cs, k) ==
    IF k > Len(cs) THEN None
    ELSE IF NumericErr(d, cs[k]) # None THEN NumericErr(d, cs[k])
    ELSE FirstErr(d, cs, k + 1)

\* cleaned.loc[~combined]: np.logical_or.reduce([]) is the scalar False, and
\* .loc[True] is a KeyError
LocErr(cs) == IF Len(cs) = 0 THEN "KeyError" ELSE None

\* --------------------------------------------------------------- the heap
\* the smallest reference not in live
Alloc(live) == CHOOSE r \in Refs : r \notin live /\ \A q \in Refs : q \notin live => r <= q

\* DfCopy that hands back the object itself (`df_clean = df`)
DfCopyAlias(h, src, live) == [heap |-> h, ref |-> src]

\* df.copy(): a new object with the same content; [heap, ref]
DfCopy(h, src, live) ==
    LET new == Alloc(live)
    IN [heap |-> [h EXCEPT ![new] = h[src]], ref |-> new]

\* objects no variable refers to are collected
Collect(h, live) == [r \in Refs |-> IF r \in live THEN h[r] ELSE Null]

\* ------------------------------------------------- missing-value engine
\* summarize_missing without the filter missing_count > 0
summarize_missing_unfiltered(d) ==
    [k \in 1..Len(d.columns) |->
          [column        |-> d.columns[k],
           missing_count |-> IsnaSum(d, d.columns[k]),
           pct_missing   |-> Round1(IsnaSum(d, d.columns[k]), LenDf(d))]]

\* summarize_missing(df): one record per column with missing cells
summarize_missing(d) ==
    LET has(c) == IsnaSum(d, c) > 0
        cs == SelectSeq(d.columns, has)
    IN [k \in 1..Len(cs) |->
          [column        |-> cs[k],
           missing_count |-> IsnaSum(d, cs[k]),
           pct_missing   |-> Round1(IsnaSum(d, cs[k]), LenDf(d))]]

\* is_categorical(series)
is_categorical(d, col) ==
    \/ d.dtypes[col] = "object"
    \/ d.dtypes[col] = "category"
    \/ Nunique(d, col) < CategoricalNunique

\* Branch with the target test moved behind the percentage tests
BranchTargetLast(miss, total, is_target) ==
    IF miss = 0 THEN "continue"
    ELSE IF miss * 100 < DropRowsPct * total THEN "drop_rows"
    ELSE IF miss * 100 < FillPct * total THEN "fill"
    ELSE IF miss * 100 >= DropColPct * total THEN "drop_column"
    ELSE IF is_target THEN "target"
    ELSE "unchanged"

\* Branch with `pct > 50` for `pct >= 50`
BranchStrictHalf(miss, total, is_target) ==
    IF miss = 0 THEN "continue"
    ELSE IF is_target THEN "target"
    ELSE IF miss * 100 < DropRowsPct * total THEN "drop_rows"
    ELSE IF miss * 100 < FillPct * total THEN "fill"
    ELSE IF miss * 100 > DropColPct * total THEN "drop_column"
    ELSE "unchanged"

\* Branch without the `continue` of a column that has no missing cell
BranchNoContinue(miss, total, is_target) ==
    IF is_target THEN "target"
    ELSE IF miss * 100 < DropRowsPct * total THEN "drop_rows"
    ELSE IF miss * 100 < FillPct * total THEN "fill"
    ELSE IF miss * 100 >= DropColPct * total THEN "drop_column"
    ELSE "unchanged"

\* Branch with the two lower percentage tests in the other order
BranchFillFirst(miss, total, is_target) ==
    IF miss = 0 THEN "continue"
    ELSE IF is_target THEN "target"
    ELSE IF miss * 100 < FillPct * total THEN "fill"
    ELSE IF miss * 100 < DropRowsPct * total THEN "drop_rows"
    ELSE IF miss * 100 >= DropColPct * total THEN "drop_column"
    ELSE "unchanged"

\* The if/elif chain of the loop body of standard_auto_cleaning: which
\* branch a column with miss missing cells takes; total is the row count
\* taken before the loop (pct = miss / total * 100).
Branch(miss, total, is_target) ==
    IF miss = 0 THEN "continue"
    ELSE IF is_target THEN "target"
    ELSE IF miss * 100 < DropRowsPct * total THEN "drop_rows"
    ELSE IF miss * 100 < FillPct * total THEN "fill"
    ELSE IF miss * 100 >= DropColPct * total THEN "drop_column"
    ELSE "unchanged"

\* `if target_col and col == target_col`
IsTarget(col, target_col) == Truthy(target_col) /\ col = target_col

\* `if pd.api.types.is_numeric_dtype(s) and not is_categorical(s)`
UseMedian(d, col) == IsNumericDtype(d, col) /\ ~is_categorical(d, col)

\* a fill that writes the value into every cell of the column
EffectOverwrites(d, col, branch) ==
    LET whole(v) == [d EXCEPT !.data[col] = [r \in Rows(d) |-> v]]
    IN CASE branch = "target"      -> Dropna(d, {col})
         [] branch = "drop_rows"   -> Dropna(d, {col})
         [] branch = "fill"        -> IF UseMedian(d, col) THEN whole(Median(d, col))
                                      ELSE IF ModeSet(d, col) # {} THEN whole(Mode0(d, col))
                                      ELSE d
         [] branch = "drop_column" -> DropColumns(d, {col})
         [] OTHER                  -> d

\* what the branch does to df_clean (all of it in place)
Effect(d, col, branch) ==
    CASE branch = "target"      -> Dropna(d, {col})
      [] branch = "drop_rows"   -> Dropna(d, {col})
      [] branch = "fill"        -> IF UseMedian(d, col) THEN Fillna(d, col, Median(d, col))
                                   ELSE IF ModeSet(d, col) # {} THEN Fillna(d, col, Mode0(d, col))
                                   ELSE d
      [] branch = "drop_column" -> DropColumns(d, {col})
      [] OTHER                  -> d

\* the action text of the log entry: its template and the value put in it
ActionText(d, col, branch, pct_r) ==
    LET dropped == LenDf(d) - LenDf(Dropna(d, {col}))
    IN CASE branch = "target"      -> [kind |-> "target_rows_dropped", arg |-> dropped]
         [] branch = "drop_rows"   -> [kind |-> "rows_dropped", arg |-> dropped]
         [] branch = "fill"        ->
              IF UseMedian(d, col) THEN [kind |-> "filled_median", arg |-> Median(d, col)]
              ELSE IF ModeSet(d, col) # {} THEN [kind |-> "filled_mode", arg |-> Mode0(d, col)]
              ELSE [kind |-> "not_filled_mode_empty", arg |-> 0]
         [] branch = "drop_column" -> [kind |-> "column_dropped", arg |-> 0]
         [] OTHER                  -> [kind |-> "unchanged", arg |-> pct_r]

\* Logged that also leaves out the columns left for manual review
LoggedChangesOnly(branch) == branch \notin {"continue", "unchanged"}

\* `continue` skips log.append
Logged(branch) == branch # "continue"

\* f"{val:.2f}": the number the text shows, val rounded to two decimals.
\* The cells of an upload are in units of 0.002, so a hundredth is five
\* units and no value lies halfway between two hundredths.
Fmt2(val) == 5 * ((val + 2) \div 5)

\* the fill value a reader finds in the action text of a log entry:
\* f"median={val:.2f}" shows the median rounded, f"mode='{val}'" the mode as
\* it is
Recorded(action) ==
    IF action.kind = "filled_median" THEN Fmt2(action.arg) ELSE action.arg

\* log.append({...}) of one column
LogEntry(d, col, total, branch) ==
    [column        |-> col,
     missing_count |-> IsnaSum(d, col),
     pct_missing   |-> Round1(IsnaSum(d, col), total),
     action        |-> ActionText(d, col, branch, Round1(IsnaSum(d, col), total))]

\* ------------------------------------------ manual missing-value operations
\* Each takes the heap, the reference of the caller's df and the references
\* the caller holds, and returns the heap and the reference it returns.

\* drop_rows_na that hands cols to dropna as it is
drop_rows_na_unfiltered(h, arg, cs, live) ==
    LET c == DfCopy(h, arg, live)
    IN IF KeyErr(c.heap[c.ref], Range(cs)) # None
       THEN [heap |-> h, ret |-> 0, exc |-> KeyErr(c.heap[c.ref], Range(cs))]
       ELSE [heap |-> [c.heap EXCEPT ![c.ref] = Dropna(c.heap[c.ref], Range(cs))],
             ret |-> c.ref, exc |-> None]

\* drop_rows_na(df, cols)
drop_rows_na(h, arg, cs, live) ==
    LET c == DfCopy(h, arg, live)
        subset == {x \in Range(cs) : x \in Range(c.heap[c.ref].columns)}
    IN IF KeyErr(c.heap[c.ref], subset) # None
       THEN [heap |-> h, ret |-> 0, exc |-> KeyErr(c.heap[c.ref], subset)]
       ELSE [heap |-> [c.heap EXCEPT ![c.ref] = Dropna(c.heap[c.ref], subset)], ret |-> c.ref,
             exc |-> None]

\* drop_cols_na(df, cols)
drop_cols_na(h, arg, cs, live) ==
    LET c == DfCopy(h, arg, live)
        to_drop == {x \in Range(cs) : x \in Range(c.heap[c.ref].columns)}
    IN IF KeyErr(c.heap[c.ref], to_drop) # None
       THEN [heap |-> h, ret |-> 0, exc |-> KeyErr(c.heap[c.ref], to_drop)]
       ELSE [heap |-> [c.heap EXCEPT ![c.ref] = DropColumns(c.heap[c.ref], to_drop)],
             ret |-> c.ref, exc |-> None]

\* drop_selected_cols(df, cols): df.drop(columns=cols, errors="ignore"), a
\* new object
drop_selected_cols(h, arg, cs, live) ==
    LET new == Alloc(live)
    IN [heap |-> [h EXCEPT ![new] = DropColumns(h[arg], Range(cs))], ret |-> new, exc |-> None]

\* df[col].fillna(text): the missing cells become the text; a column that
\* had a missing cell becomes object
FillnaText(d, col, code) ==
    IF IsnaSum(d, col) = 0 THEN d
    ELSE [Fillna(d, col, code) EXCEPT !.dtypes[col] = "object"]

\* the exception of the body of the loop of fill_na for one column: a
\* label that is no column is skipped before df_clean[col] is read, mean and
\* median are taken of numeric columns only, mode[0] of a mode that is not
\* empty
FillNaColErr(d, col, method) ==
    IF col \notin Range(d.columns) THEN None
    ELSE IF method \in {"mean", "median"} /\ IsNumericDtype(d, col) THEN NumericErr(d, col)
    ELSE KeyErr(d, {col})

\* FillNaCol without the tests is_numeric_dtype(series)
FillNaColAnyDtype(d, col, method, constant_value) ==
    IF col \notin Range(d.columns) THEN d
    ELSE IF method = "mean" THEN Fillna(d, col, Mean(d, col))
    ELSE IF method = "median" THEN Fillna(d, col, Median(d, col))
    ELSE IF method = "mode"
         THEN IF ModeSet(d, col) # {} THEN Fillna(d, col, Mode0(d, col)) ELSE d
    ELSE IF method = "constant" THEN FillnaText(d, col, constant_value)
    ELSE IF method = "unknown" THEN FillnaText(d, col, UnknownText)
    ELSE d

\* the body of the loop of fill_na for one column
FillNaCol(d, col, method, constant_value) ==
    IF col \notin Range(d.columns) THEN d
    ELSE IF method = "mean" /\ IsNumericDtype(d, col) THEN Fillna(d, col, Mean(d, col))
    ELSE IF method = "median" /\ IsNumericDtype(d, col) THEN Fillna(d, col, Median(d, col))
    ELSE IF method = "mode"
         THEN IF ModeSet(d, col) # {} THEN Fillna(d, col, Mode0(d, col)) ELSE d
    ELSE IF method = "constant" THEN FillnaText(d, col, constant_value)
    ELSE IF method = "unknown" THEN FillnaText(d, col, UnknownText)
    ELSE d

RECURSIVE FillNaCols(_, _, _, _, _)
FillNaCols(d, cs, k, method, constant_value) ==
    IF k > Len(cs) THEN d
    ELSE FillNaCols(FillNaCol(d, cs[k], method, constant_value), cs, k + 1, method, constant_value)

\* the exception of the first pass of the loop of fill_na that raises one
RECURSIVE FillNaErr(_, _, _, _, _)
FillNaErr(d, cs, k, method, constant_value) ==
    IF k > Len(cs) THEN None
    ELSE IF FillNaColErr(d, cs[k], method) # None THEN FillNaColErr(d, cs[k], method)
    ELSE FillNaErr(FillNaCol(d, cs[k], method, constant_value), cs, k + 1, method, constant_value)

\* fill_na(df, cols, method, constant_value)
fill_na(h, arg, cs, method, constant_value, live) ==
    LET c == DfCopy(h, arg, live)
        exc == FillNaErr(c.heap[c.ref], cs, 1, method, constant_value)
    IN IF exc # None THEN [heap |-> h, ret |-> 0, exc |-> exc]
       ELSE [heap |-> [c.heap EXCEPT ![c.ref] =
                          FillNaCols(c.heap[c.ref], cs, 1, method, constant_value)],
             ret |-> c.ref, exc |-> None]

\* df.drop_duplicates().reset_index(drop=True): the first of the rows that
\* agree in every column is kept; the rows are labelled anew
DropDuplicates(d) ==
    LET pos(r) == CHOOSE k \in 1..Len(d.index) : d.index[k] = r
        same(r, q) == \A c \in Range(d.columns) : d.data[c][r] = d.data[c][q]
        first(r) == \A q \in Rows(d) : (pos(q) < pos(r)) => ~same(r, q)
        idx == SelectSeq(d.index, first)
    IN [d EXCEPT !.index = [k \in 1..Len(idx) |-> k],
                 !.data = [c \in DOMAIN d.data |-> [k \in 1..Len(idx) |-> d.data[c][idx[k]]]]]

\* remove_duplicates(df): a new object
remove_duplicates(h, arg, live) ==
    LET new == Alloc(live)
    IN [heap |-> [h EXCEPT ![new] = DropDuplicates(h[arg])], ret |-> new, exc |-> None]

\* apply_manual_cleaning(df, action, cols, target, method, value); the page
\* handler "Применить" has the same chain for its four actions
apply_manual_cleaning(h, arg, action, cs, method, value, live) ==
    CASE action = "drop_rows"          -> drop_rows_na(h, arg, cs, live)
      [] action = "drop_cols_na"       -> drop_cols_na(h, arg, cs, live)
      [] action = "drop_selected_cols" -> drop_selected_cols(h, arg, cs, live)
      [] action = "fill_na"            -> fill_na(h, arg, cs, method, value, live)
      [] action = "remove_duplicates"  -> remove_duplicates(h, arg, live)
      [] OTHER                         -> [heap |-> h, ret |-> arg, exc |-> None]

\* ---------------------------------------------------------- outlier engine
\* detect_outliers_iqr that also flags a value equal to a bound
detect_outliers_iqr_inclusive(d, col, ql, qh) ==
    IF NotNa(d, col) = {} THEN {}
    ELSE {r \in NotNa(d, col) :
            \/ 200 * d.data[col][r] <= IqrLower(d, col, ql, qh, 100)
            \/ 200 * d.data[col][r] >= IqrUpper(d, col, ql, qh, 100)}

\* detect_outliers_iqr(df, [col], q_low, q_high)[col], as the set of rows
\* where the mask is True; quantiles in hundredths
detect_outliers_iqr(d, col, ql, qh) ==
    IF NotNa(d, col) = {} THEN {}
    ELSE {r \in NotNa(d, col) :
            \/ 200 * d.data[col][r] < IqrLower(d, col, ql, qh, 100)
            \/ 200 * d.data[col][r] > IqrUpper(d, col, ql, qh, 100)}

\* detect_outliers_zscore that flags every row when sigma is zero or NaN
detect_outliers_zscore_all(d, col, z10) ==
    IF StdZeroOrNaN(d, col) THEN Rows(d) ELSE ZscoreRows(d, col, z10)

\* detect_outliers_zscore(df, [col], z_thresh)[col], as the set of rows
\* where the mask is True
detect_outliers_zscore(d, col, z10) ==
    IF StdZeroOrNaN(d, col) THEN {} ELSE ZscoreRows(d, col, z10)

\* np.logical_or.reduce([masks[c] for c in cols])
Combined(masks, cs) == UNION {masks[k] : k \in 1..Len(cs)}

\* remove_outliers_iqr(df, cols, q_low, q_high)
remove_outliers_iqr(h, arg, cs, ql, qh, live) ==
    LET c == DfCopy(h, arg, live)
        cleaned0 == c.heap[c.ref]
        msk == [k \in 1..Len(cs) |-> detect_outliers_iqr(cleaned0, cs[k], ql, qh)]
        new == Alloc(live \cup {c.ref})
    IN IF FirstErr(cleaned0, cs, 1) # None
         THEN [heap |-> h, ret |-> 0, exc |-> FirstErr(cleaned0, cs, 1)]
       ELSE IF LocErr(cs) # None THEN [heap |-> h, ret |-> 0, exc |-> LocErr(cs)]
       ELSE [heap |-> [c.heap EXCEPT ![new] = Loc(cleaned0, Rows(cleaned0) \ Combined(msk, cs))],
             ret |-> new, exc |-> None]

\* remove_outliers_zscore that removes the rows column by column, each mask
\* computed on what the columns before it left
RECURSIVE ZscoreSequential(_, _, _, _)
ZscoreSequential(d, cs, k, z10) ==
    IF k > Len(cs) THEN d
    ELSE ZscoreSequential(Loc(d, Rows(d) \ detect_outliers_zscore(d, cs[k], z10)), cs, k + 1, z10)
remove_outliers_zscore_sequential(h, arg, cs, z10, live) ==
    LET c == DfCopy(h, arg, live)
        cleaned0 == c.heap[c.ref]
        new == Alloc(live \cup {c.ref})
    IN IF FirstErr(cleaned0, cs, 1) # None
         THEN [heap |-> h, ret |-> 0, exc |-> FirstErr(cleaned0, cs, 1)]
       ELSE IF LocErr(cs) # None THEN [heap |-> h, ret |-> 0, exc |-> LocErr(cs)]
       ELSE [heap |-> [c.heap EXCEPT ![new] = ZscoreSequential(cleaned0, cs, 1, z10)],
             ret |-> new, exc |-> None]

\* remove_outliers_zscore(df, cols, z_thresh)
remove_outliers_zscore(h, arg, cs, z10, live) ==
    LET c == DfCopy(h, arg, live)
        cleaned0 == c.heap[c.ref]
        msk == [k \in 1..Len(cs) |-> detect_outliers_zscore(cleaned0, cs[k], z10)]
        new == Alloc(live \cup {c.ref})
    IN IF FirstErr(cleaned0, cs, 1) # None
         THEN [heap |-> h, ret |-> 0, exc |-> FirstErr(cleaned0, cs, 1)]
       ELSE IF LocErr(cs) # None THEN [heap |-> h, ret |-> 0, exc |-> LocErr(cs)]
       ELSE [heap |-> [c.heap EXCEPT ![new] = Loc(cleaned0, Rows(cleaned0) \ Combined(msk, cs))],
             ret |-> new, exc |-> None]

\* Clip with the quartiles as the bounds
ClipToQuartiles(d, col, ql, qh) ==
    IF NotNa(d, col) = {} THEN d
    ELSE LET lo == 2 * QuantileTimes(d, col, ql, 100)
             hi == 2 * QuantileTimes(d, col, qh, 100)
         IN [d EXCEPT !.data[col] = [r \in Rows(d) |->
                IF d.data[col][r] = NaN THEN NaN
                ELSE IF 200 * d.data[col][r] < lo THEN lo \div 200
                ELSE IF 200 * d.data[col][r] > hi THEN hi \div 200
                ELSE d.data[col][r]]]

\* capped[col] = capped[col].clip(lower, upper); the bounds are put on the
\* integer grid of the model
Clip(d, col, ql, qh) ==
    IF NotNa(d, col) = {} THEN d
    ELSE LET lo == IqrLower(d, col, ql, qh, 100)
             hi == IqrUpper(d, col, ql, qh, 100)
         IN [d EXCEPT !.data[col] = [r \in Rows(d) |->
                IF d.data[col][r] = NaN THEN NaN
                ELSE IF 200 * d.data[col][r] < lo THEN lo \div 200
                ELSE IF 200 * d.data[col][r] > hi THEN hi \div 200
                ELSE d.data[col][r]]]

RECURSIVE ClipCols(_, _, _, _, _)
ClipCols(d, cs, k, ql, qh) ==
    IF k > Len(cs) THEN d ELSE ClipCols(Clip(d, cs[k], ql, qh), cs, k + 1, ql, qh)

\* cap_outliers(df, cols, q_low, q_high)
cap_outliers(h, arg, cs, ql, qh, live) ==
    LET c == DfCopy(h, arg, live)
    IN IF FirstErr(c.heap[c.ref], cs, 1) # None
       THEN [heap |-> h, ret |-> 0, exc |-> FirstErr(c.heap[c.ref], cs, 1)]
       ELSE [heap |-> [c.heap EXCEPT ![c.ref] = ClipCols(c.heap[c.ref], cs, 1, ql, qh)],
             ret |-> c.ref, exc |-> None]

\* cleaned[(cleaned[col] >= low_val) & (cleaned[col] <= high_val)] with the
\* two np.percentile values of the non-missing cells; a comparison with a
\* missing cell, or with the NaN percentile of no cells, is False
PercentileKeep(d, col, pl, ph) ==
    IF NotNa(d, col) = {} THEN Loc(d, {})
    ELSE Loc(d, {r \in NotNa(d, col) :
                   /\ 100 * d.data[col][r] >= QuantileTimes(d, col, pl, 100)
                   /\ 100 * d.data[col][r] <= QuantileTimes(d, col, ph, 100)})

RECURSIVE PercentileCols(_, _, _, _, _)
PercentileCols(d, cs, k, pl, ph) ==
    IF k > Len(cs) THEN d
    ELSE PercentileCols(PercentileKeep(d, cs[k], pl, ph), cs, k + 1, pl, ph)

\* remove_outliers_percentile(df, cols, p_low, p_high): every pass of the
\* loop binds cleaned to a new object
remove_outliers_percentile(h, arg, cs, pl, ph, live) ==
    LET c == DfCopy(h, arg, live)
        new == IF Len(cs) = 0 THEN c.ref ELSE Alloc(live \cup {c.ref})
    IN IF FirstErr(c.heap[c.ref], cs, 1) # None
       THEN [heap |-> h, ret |-> 0, exc |-> FirstErr(c.heap[c.ref], cs, 1)]
       ELSE [heap |-> [c.heap EXCEPT ![new] = PercentileCols(c.heap[c.ref], cs, 1, pl, ph)],
             ret |-> new, exc |-> None]

\* ------------------------------------------------------------------ state
VARIABLES
    heap,         \* reference -> DataFrame object
    session_df,   \* st.session_state["df"]: a reference
    data_changed, \* st.session_state["data_changed"]
    pc,           \* position of the running handler
    op,           \* the handler that runs / ran last, with its arguments
    prev_op,      \* the handler completed before it
    df,           \* the handler's argument df: a reference
    df_clean,     \* standard_auto_cleaning's df_clean: a reference
    cols,         \* the iterator of `for col in df.columns`
    i,            \* its position
    total,        \* standard_auto_cleaning's total
    log,          \* the log under construction / returned
    stats_before, \* run_auto_cleaning's stats_before
    cleaned,      \* run_auto_outlier_removal's cleaned: a reference
    before,       \* run_auto_outlier_removal's before
    raised,       \* the exception the last call raised, or None
    masks,        \* the dict the last detect_outliers_* call returned
    call,         \* the call a caller of one operation makes: name and arguments
    nops,         \* handler invocations so far
    chat_history, \* AI_helper.chat_history: one list in the server process
    context,      \* AI_helper.context: one dict in the server process
    ss,           \* st.session_state of every session of the server process
    posted,       \* per session, the messages of its last request to the API
    session_state,\* st.session_state: the keys "modeling_state" and "modeling"
    page          \* how the last run of the modeling page ended

engine_vars == <<heap, session_df, data_changed, pc, op, prev_op, df, df_clean, cols, i, total,
                 log, stats_before, cleaned, before, raised, masks, call, nops>>
ai_vars == <<chat_history, context, ss, posted>>
ml_vars == <<session_state, page>>
vars == <<engine_vars, ai_vars, ml_vars>>

NoOp == [name |-> "none", target |-> None, log |-> <<>>]
Op(name, target) == [name |-> name, target |-> target, log |-> <<>>]

\* ------------------------------------------------- the caller's dataset
\* The dataset the session holds when the engines are first called: n rows,
\* one column per label.  The engines take any DataFrame, so a column of any
\* kind may have missing cells.  The kinds of column:
\*   num_high   float64, all values distinct
\*   num_low    float64, three distinct values
\*   obj, cat   object / category, three distinct values
\*   num_out    float64, all values equal but the last, which lies far off
\*   num_ramp   float64, evenly spaced values
\*   num_const  float64, all values equal
\* and, in eighths, so that the bounds Q1 - 1.5*IQR and Q3 + 1.5*IQR of any
\* column are integers,
\*   example    float64, 1, 2, 3, ... and 100 in the last row
\*   low_out    float64, 1, 2, 3, ... and -100 in the first row
\*   skewed     float64, 1 in every row but 1000 in the last
\*   ramp       float64, 1, 2, 3, ...
\*   const      float64, 1 in every row
\*   text       object, three distinct values
KindOf == [num_high |-> "float64", num_low |-> "float64", obj |-> "object", cat |-> "category",
           num_out |-> "float64", num_ramp |-> "float64", num_const |-> "float64",
           example |-> "float64", low_out |-> "float64", skewed |-> "float64",
           ramp |-> "float64", const |-> "float64", text |-> "object", masked |-> "float64",
           binary |-> "float64"]
Value(kind, r, n) ==
    CASE kind \in {"num_high", "num_ramp"} -> 2 * r
      [] kind = "num_out"                  -> IF r = n THEN 10 ELSE 2
      [] kind = "num_const"                -> 4
      [] kind = "example"                  -> IF r = n THEN 800 ELSE 8 * r
      [] kind = "low_out"                  -> IF r = 1 THEN -800 ELSE 8 * r
      [] kind = "skewed"                   -> IF r = n THEN 8000 ELSE 8
      [] kind = "ramp"                     -> 8 * r
      [] kind = "const"                    -> 8
      [] kind = "text"                     -> 8 * (r % 3)
      [] kind = "binary"                   -> 8 * (r % 2)
      [] kind = "masked"                   -> IF r = n THEN 800 ELSE IF r = n - 1 THEN 104 ELSE 8 * r
      [] OTHER                             -> 2 * (r % 3)

Upload(n, kinds, missing) ==
    [columns |-> Labels,
     index   |-> [r \in 1..n |-> r],
     dtypes  |-> [c \in LabelSet |-> KindOf[kinds[c]]],
     data    |-> [c \in LabelSet |-> [r \in 1..n |->
                    IF r \in missing[c] THEN NaN ELSE Value(kinds[c], r, n)]]]

\* the kinds of the columns by position, as a function of the label
ByLabel(kr) == [c \in LabelSet |-> kr[CHOOSE k \in 1..Len(Labels) : Labels[k] = c]]

\* the sessions of one server process
Sessions == {"A", "B"}
\* AI_helper.chat_history = [{"role": "system", ...}]
SystemMessage == [role |-> "system", content |-> "system prompt", context |-> <<>>]
\* the module AI_helper after import, and sessions that have done nothing
AiInit ==
    /\ chat_history = <<SystemMessage>>
    /\ context = <<>>
    /\ ss = [s \in Sessions |-> [df |-> None, data_summary |-> None, chat_history |-> <<>>]]
    /\ posted = [s \in Sessions |-> <<>>]

\* everything but the uploaded dataset
InitSession ==
    /\ AiInit
    /\ session_state = EmptyDict
    /\ page = "none"
    /\ session_df = 1
    /\ data_changed = FALSE
    /\ pc = "idle"
    /\ op = NoOp
    /\ prev_op = NoOp
    /\ df = 0
    /\ df_clean = 0
    /\ cols = <<>>
    /\ i = 0
    /\ total = 0
    /\ log = <<>>
    /\ stats_before = <<>>
    /\ cleaned = 0
    /\ before = <<>>
    /\ raised = None
    /\ masks = <<>>
    /\ nops = 0

NoCall == [name |-> "none"]

\* Uploads for the missing-value engine: MaxRows rows, so that one missing
\* cell is below 5% and a column can hold 20 distinct values.
KindRows == {<<"num_high", "num_low", "obj">>,
             <<"obj", "num_high", "num_low">>,
             <<"num_low", "cat", "num_high">>}

\* the rows in which a column is missing
MissingSets == {{}, {1}, {MaxRows}, 1..3, 1..(MaxRows \div 4), 1..((MaxRows + 1) \div 2),
                4..MaxRows}

Init ==
    /\ call = NoCall
    /\ \E kr \in KindRows : \E missing \in [LabelSet -> MissingSets] :
          heap = [r \in Refs |-> IF r = 1 THEN Upload(MaxRows, ByLabel(kr), missing) ELSE Null]
    /\ InitSession

\* Uploads for both engines: EngineRows rows of small values, so that the
\* moments of a column stay within 32-bit integers.
EngineKindRows == {<<"num_out", "num_ramp", "obj">>,
                   <<"num_ramp", "num_const", "num_out">>,
                   <<"obj", "num_out", "num_ramp">>}

EngineMissingSets == {{}, {EngineRows}, 1..(EngineRows \div 2)}

EngineInit ==
    /\ call = NoCall
    /\ \E kr \in EngineKindRows : \E missing \in [LabelSet -> EngineMissingSets] :
          heap = [r \in Refs |-> IF r = 1 THEN Upload(EngineRows, ByLabel(kr), missing) ELSE Null]
    /\ InitSession

\* --------------------------------------------------- auto-cleaning handler
\* app.py "Запустить автоочистку": run_auto_cleaning(df, target_col=target)
\* up to the loop of standard_auto_cleaning
RunAutoCleaning(target, max_ops) ==
    /\ pc = "idle"
    /\ nops < max_ops
    /\ LET c == DfCopy(Collect(heap, {session_df}), session_df, {session_df})
       IN /\ heap' = c.heap
          /\ df_clean' = c.ref
    /\ df' = session_df
    /\ stats_before' = summarize_missing(heap[session_df])
    /\ total' = LenDf(heap[session_df])
    /\ log' = <<>>
    /\ cols' = heap[session_df].columns
    /\ i' = 1
    /\ pc' = "auto_clean"
    /\ prev_op' = [op EXCEPT !.log = log]
    /\ op' = Op("auto_clean", target)
    /\ nops' = nops + 1
    /\ raised' = None
    /\ UNCHANGED <<session_df, data_changed, cleaned, before, masks, call, ai_vars, ml_vars>>

\* one iteration of `for col in df.columns`
AutoCleanStep ==
    /\ pc = "auto_clean"
    /\ i <= Len(cols)
    /\ LET d      == heap[df_clean]
           col    == cols[i]
           branch == Branch(IsnaSum(d, col), total, IsTarget(col, op.target))
       IN /\ heap' = [heap EXCEPT ![df_clean] = Effect(d, col, branch)]
          /\ log' = IF Logged(branch) THEN Append(log, LogEntry(d, col, total, branch)) ELSE log
    /\ i' = i + 1
    /\ UNCHANGED <<session_df, data_changed, pc, op, prev_op, df, df_clean, cols, total,
                   stats_before, cleaned, before, raised, masks, nops, call, ai_vars, ml_vars>>

\* return df_clean, log; the handler stores the result in the session
AutoCleanReturn ==
    /\ pc = "auto_clean"
    /\ i > Len(cols)
    /\ session_df' = df_clean
    /\ data_changed' = TRUE
    /\ pc' = "idle"
    /\ UNCHANGED <<heap, op, prev_op, df, df_clean, cols, i, total, log, stats_before,
                   cleaned, before, raised, masks, nops, call, ai_vars, ml_vars>>

\* The session of the auto-cleaning page: the upload, then auto-cleaning runs.
Next ==
    \/ \E target \in {None} \cup LabelSet : RunAutoCleaning(target, MaxOps)
    \/ AutoCleanStep
    \/ AutoCleanReturn

Spec == Init /\ [][Next]_vars

\* ------------------------------------------------ manual cleaning handler
\* the column lists and parameters a caller passes
ColLists == {<<>>, <<"a">>, <<"b", "c">>, <<"c", "a", "b">>}
ManualActions == {"drop_rows", "drop_cols_na", "drop_selected_cols", "fill_na",
                  "remove_duplicates", "other"}
FillMethods == {"mean", "median", "mode", "constant", "unknown"}

\* app.py "Применить" / apply_manual_cleaning: the call, then
\* st.session_state["df"] = new_df and data_changed = True
\* (before = df.copy() is shown and dropped)
ApplyManualCleaning(action, cs, method) ==
    /\ pc = "idle"
    /\ nops < MaxEngineOps
    /\ LET res == apply_manual_cleaning(Collect(heap, {session_df}), session_df, action, cs,
                                        method, TypedText, {session_df})
       IN IF res.exc # None
          THEN /\ heap' = Collect(heap, {session_df})
               /\ raised' = res.exc
               /\ UNCHANGED <<session_df, data_changed>>
          ELSE /\ heap' = Collect(res.heap, {session_df, res.ret})
               /\ session_df' = res.ret
               /\ data_changed' = TRUE
               /\ raised' = None
    /\ df' = session_df
    /\ prev_op' = [op EXCEPT !.log = log]
    /\ op' = Op(action, None)
    /\ log' = <<>>
    /\ nops' = nops + 1
    /\ UNCHANGED <<pc, df_clean, cols, i, total, stats_before, cleaned, before, masks, call, ai_vars, ml_vars>>

\* ------------------------------------------------- auto outlier handler
\* app.py "Запустить автоочистку выбросов": run_auto_outlier_removal(df) up
\* to its loop; z10 is z_thresh in tenths
RunAutoOutlierRemoval(z10, const_is_nan) ==
    /\ pc = "idle"
    /\ nops < MaxEngineOps
    /\ LET c == DfCopy(Collect(heap, {session_df}), session_df, {session_df})
       IN /\ heap' = c.heap
          /\ cleaned' = c.ref
    /\ cols' = NumericCols(heap[session_df])
    /\ i' = 1
    /\ before' = <<>>
    /\ log' = <<>>
    /\ df' = session_df
    /\ pc' = "auto_outliers"
    /\ prev_op' = [op EXCEPT !.log = log]
    /\ op' = [name |-> "auto_outliers", target |-> None, log |-> <<>>,
              z10 |-> z10, const_is_nan |-> const_is_nan]
    /\ nops' = nops + 1
    /\ raised' = None
    /\ UNCHANGED <<session_df, data_changed, df_clean, total, stats_before, masks, call, ai_vars, ml_vars>>

\* Method with the two methods exchanged
MethodExchanged(d, col, const_is_nan) ==
    IF SkewBelowOne(d, col, const_is_nan) THEN "IQR" ELSE "Z-score"

\* the method of a column: "Z-score" if abs(skewness) < 1 else "IQR"
Method(d, col, const_is_nan) == IF SkewBelowOne(d, col, const_is_nan) THEN "Z-score" ELSE "IQR"

\* the rows the method flags in the current cleaned
Flagged(d, col, method, z10) ==
    IF method = "IQR" THEN detect_outliers_iqr(d, col, 25, 75) ELSE ZscoreRows(d, col, z10)

\* where an exception may be raised inside the try of the loop body: nowhere,
\* before the first statement with an effect (skew, the masks, mean, std),
\* or in cleaned.loc[...] after the two appends
Failures == {"none", "early", "late"}

\* log.append({"column": col, "method": "auto", "error": str(e)})
ErrorEntry(col) == [column |-> col, method |-> "auto", error |-> "Exception"]

\* a loop without try/except: the exception leaves run_auto_outlier_removal
OnExceptionUncaught(col, lg) == [log |-> lg, pc |-> "idle", raised |-> "Exception"]

\* `except Exception as e:` inside the loop: the entry is appended and the
\* loop goes on
OnException(col, lg) == [log |-> Append(lg, ErrorEntry(col)), pc |-> "auto_outliers", raised |-> None]

\* a loop that logs and removes whatever the count
RemovesAlways(removed) == TRUE

\* `if removed > 0:`
Removes(removed) == removed > 0

\* log.append({"column": col, "method": "Z-score", "removed_count": 0,
\*             "note": "std=0"})
NoteEntry(col) == [column |-> col, method |-> "Z-score", removed_count |-> 0, note |-> "std=0"]

\* a loop that reads df where the code reads cleaned
WorkingIsInput(h, cleaned_ref, df_ref) == h[df_ref]

\* the dataset a pass of the loop reads: cleaned[col], and cleaned handed to
\* detect_outliers_iqr
Working(h, cleaned_ref, df_ref) == h[cleaned_ref]

\* one iteration of `for col in numeric_cols`
AutoOutlierStep(fail) ==
    /\ pc = "auto_outliers"
    /\ i <= Len(cols)
    /\ LET d      == Working(heap, cleaned, df)
           col    == cols[i]
           method == Method(d, col, op.const_is_nan)
           mask   == Flagged(d, col, method, op.z10)
           removed == Cardinality(mask)
           new    == Alloc({session_df, cleaned})
           entry  == [column |-> col, method |-> method, removed_count |-> removed]
       IN IF NotNa(d, col) = {}
          THEN /\ fail = "none"
               /\ UNCHANGED <<heap, cleaned, log, before, pc, raised>>
          ELSE IF fail = "early"
          THEN /\ log' = OnException(col, log).log
               /\ pc' = OnException(col, log).pc
               /\ raised' = OnException(col, log).raised
               /\ UNCHANGED <<heap, cleaned, before>>
          ELSE IF method = "Z-score" /\ StdZeroOrNaN(d, col)
          THEN /\ fail = "none"
               /\ log' = Append(log, NoteEntry(col))
               /\ UNCHANGED <<heap, cleaned, before, pc, raised>>
          ELSE IF Removes(removed) /\ fail = "late"
          THEN /\ before' = Append(before, [column |-> col, removed_count |-> removed])
               /\ log' = OnException(col, Append(log, entry)).log
               /\ pc' = OnException(col, Append(log, entry)).pc
               /\ raised' = OnException(col, Append(log, entry)).raised
               /\ UNCHANGED <<heap, cleaned>>
          ELSE IF Removes(removed)
          THEN /\ before' = Append(before, [column |-> col, removed_count |-> removed])
               /\ log' = Append(log, entry)
               /\ heap' = Collect([heap EXCEPT ![new] = Loc(d, Rows(d) \ mask)],
                                  {session_df, new})
               /\ cleaned' = new
               /\ UNCHANGED <<pc, raised>>
          ELSE /\ fail = "none"
               /\ UNCHANGED <<heap, cleaned, log, before, pc, raised>>
    /\ i' = i + 1
    /\ UNCHANGED <<session_df, data_changed, op, prev_op, df, df_clean, cols, total,
                   stats_before, masks, nops, call, ai_vars, ml_vars>>

\* total_removed = sum(item["removed_count"] for item in log): item[...] of
\* an entry without that key raises KeyError
TotalRemovedErr(lg) ==
    IF \E k \in 1..Len(lg) : "removed_count" \notin DOMAIN lg[k] THEN "KeyError" ELSE None

\* return before_df, log, cleaned; the handler stores cleaned in the session
\* and computes total_removed, which may raise (kept in op, apart from what
\* run_auto_outlier_removal itself raised)
AutoOutlierReturn ==
    /\ pc = "auto_outliers"
    /\ i > Len(cols)
    /\ session_df' = cleaned
    /\ op' = [name |-> op.name, target |-> op.target, log |-> op.log, z10 |-> op.z10,
              const_is_nan |-> op.const_is_nan, total_removed_exc |-> TotalRemovedErr(log)]
    /\ pc' = "idle"
    /\ UNCHANGED <<heap, data_changed, prev_op, df, df_clean, cols, i, total, log,
                   stats_before, cleaned, before, raised, masks, nops, call, ai_vars, ml_vars>>

\* -------------------------------------------- manual outlier operations
\* z_thresh in tenths: 1.0 and the default 3.0
ZThresholds == {10, 30}
OutlierOps == {"remove_outliers_iqr", "remove_outliers_zscore", "cap_outliers",
               "remove_outliers_percentile"}

\* the operation called with the quartiles 0.25/0.75, the threshold z10 (in
\* tenths) or the percentiles 5/95
OutlierOp(h, arg, name, cs, z10, live) ==
    CASE name = "remove_outliers_iqr"    -> remove_outliers_iqr(h, arg, cs, 25, 75, live)
      [] name = "remove_outliers_zscore" -> remove_outliers_zscore(h, arg, cs, z10, live)
      [] name = "cap_outliers"           -> cap_outliers(h, arg, cs, 25, 75, live)
      [] OTHER                           -> remove_outliers_percentile(h, arg, cs, 5, 95, live)

\* a call of one of them on the session's dataset with a column list; the
\* caller keeps the result unless the call raises
CallOutlierOp(name, cs, z10) ==
    /\ pc = "idle"
    /\ nops < MaxEngineOps
    /\ LET res == OutlierOp(Collect(heap, {session_df}), session_df, name, cs, z10, {session_df})
       IN IF res.exc # None
          THEN /\ heap' = Collect(heap, {session_df})
               /\ raised' = res.exc
               /\ UNCHANGED session_df
          ELSE /\ heap' = Collect(res.heap, {session_df, res.ret})
               /\ session_df' = res.ret
               /\ raised' = None
    /\ df' = session_df
    /\ prev_op' = [op EXCEPT !.log = log]
    /\ op' = Op(name, None)
    /\ log' = <<>>
    /\ nops' = nops + 1
    /\ UNCHANGED <<data_changed, pc, df_clean, cols, i, total, stats_before, cleaned, before,
                   masks, call, ai_vars, ml_vars>>

\* the dict detect_outliers_iqr / detect_outliers_zscore returns: for every
\* column of cols a mask over df.index
Masks(d, name, cs, z10) ==
    [c \in Range(cs) |-> [r \in Rows(d) |->
        IF name = "detect_outliers_iqr" THEN r \in detect_outliers_iqr(d, c, 25, 75)
        ELSE r \in detect_outliers_zscore(d, c, z10)]]

DetectOps == {"detect_outliers_iqr", "detect_outliers_zscore"}

\* a call of detect_outliers_iqr(df, cols) / detect_outliers_zscore(df, cols,
\* z_thresh) on the session's dataset
CallDetect(name, cs, z10) ==
    /\ pc = "idle"
    /\ nops < MaxEngineOps
    /\ LET d == heap[session_df]
       IN IF FirstErr(d, cs, 1) # None
          THEN raised' = FirstErr(d, cs, 1) /\ masks' = <<>>
          ELSE raised' = None /\ masks' = Masks(d, name, cs, z10)
    /\ heap' = Collect(heap, {session_df})
    /\ df' = session_df
    /\ prev_op' = [op EXCEPT !.log = log]
    /\ op' = Op(name, None)
    /\ log' = <<>>
    /\ nops' = nops + 1
    /\ UNCHANGED <<session_df, data_changed, pc, df_clean, cols, i, total, stats_before,
                   cleaned, before, call, ai_vars, ml_vars>>

\* Both engines on small uploads.  On a float64 column skew, mean, std and
\* quantile raise nothing, so no iteration of the outlier loop fails here.
EngineNext ==
    \/ \E target \in {None} \cup LabelSet : RunAutoCleaning(target, MaxEngineOps)
    \/ AutoCleanStep
    \/ AutoCleanReturn
    \/ \E action \in ManualActions, cs \in ColLists :
          \E method \in (IF action = "fill_na" THEN FillMethods ELSE {None}) :
             ApplyManualCleaning(action, cs, method)
    \/ \E z10 \in ZThresholds, const_is_nan \in BOOLEAN :
          RunAutoOutlierRemoval(z10, const_is_nan)
    \/ AutoOutlierStep("none")
    \/ AutoOutlierReturn
    \/ \E name \in OutlierOps, cs \in ColLists :
          \E z10 \in (IF name = "remove_outliers_zscore" THEN ZThresholds ELSE {30}) :
             CallOutlierOp(name, cs, z10)

EngineSpec == EngineInit /\ [][EngineNext]_vars

\* ------------------------------------------------ one call of an operation
\* A caller of the library makes one call: the dataset and the arguments are
\* the caller's.  The datasets have one row, CallRows rows or SkewRows rows; a
\* column has no missing cell, one, or only missing cells.
CallKindRows == {<<"example", "low_out", "text">>,
                 <<"skewed", "ramp", "const">>,
                 <<"ramp", "text", "example">>}
CallMissingSets(n) == {{}, {2}, 1..n}

\* column lists: empty, of columns, and with the label "z" that is no column
CallColLists == {<<>>, <<"a">>, <<"z">>, <<"a", "b">>, <<"b", "z", "c">>, <<"c">>}

Call(name, cs, method, z10, const_is_nan) ==
    [name |-> name, cols |-> cs, method |-> method, z10 |-> z10, const_is_nan |-> const_is_nan]

Calls ==
    {Call(a, cs, None, 30, FALSE) :
        a \in {"drop_rows", "drop_cols_na", "drop_selected_cols"}, cs \in CallColLists}
    \cup {Call("fill_na", cs, m, 30, FALSE) : cs \in CallColLists, m \in FillMethods}
    \cup {Call(o, cs, None, 30, FALSE) : o \in OutlierOps \cup DetectOps, cs \in CallColLists}
    \cup {Call(o, cs, None, 10, FALSE) :
             o \in {"remove_outliers_zscore", "detect_outliers_zscore"}, cs \in CallColLists}
    \cup {Call("run_auto_outlier_removal", <<>>, None, z10, cn) :
             z10 \in ZThresholds, cn \in BOOLEAN}

CallInit ==
    /\ call \in Calls
    /\ \E n \in {1, CallRows, SkewRows}, kr \in CallKindRows :
          \E missing \in [LabelSet -> CallMissingSets(n)] :
             heap = [r \in Refs |-> IF r = 1 THEN Upload(n, ByLabel(kr), missing) ELSE Null]
    /\ InitSession

\* the call, and the passes of the loop of run_auto_outlier_removal, any of
\* which may fail
CallNext ==
    \/ /\ call.name \in ManualActions
       /\ nops = 0
       /\ ApplyManualCleaning(call.name, call.cols, call.method)
    \/ /\ call.name \in OutlierOps
       /\ nops = 0
       /\ CallOutlierOp(call.name, call.cols, call.z10)
    \/ /\ call.name \in DetectOps
       /\ nops = 0
       /\ CallDetect(call.name, call.cols, call.z10)
    \/ /\ call.name = "run_auto_outlier_removal"
       /\ nops = 0
       /\ RunAutoOutlierRemoval(call.z10, call.const_is_nan)
    \/ \E fail \in Failures : AutoOutlierStep(fail)
    \/ AutoOutlierReturn

CallSpec == CallInit /\ [][CallNext]_vars

\* ------------------------------------------------ manual outlier handler
\* app.py "Применить ручную очистку" of the outlier page, up to its loop:
\* cleaned_manual = df.copy().  before_manual, a second copy of df that is
\* only plotted, is left out.
ApplyManualOutliers(name, cs, z10) ==
    /\ pc = "idle"
    /\ nops < MaxEngineOps
    /\ Range(cs) \subseteq Range(NumericCols(heap[session_df]))
    /\ LET c == DfCopy(Collect(heap, {session_df}), session_df, {session_df})
       IN /\ heap' = c.heap
          /\ cleaned' = c.ref
    /\ cols' = cs
    /\ i' = 1
    /\ df' = session_df
    /\ pc' = "manual_outliers"
    /\ prev_op' = [op EXCEPT !.log = log]
    /\ op' = [name |-> "manual_outliers", target |-> None, log |-> <<>>,
              method |-> name, cols |-> cs, z10 |-> z10]
    /\ log' = <<>>
    /\ nops' = nops + 1
    /\ raised' = None
    /\ UNCHANGED <<session_df, data_changed, df_clean, total, stats_before, before, masks,
                   call, ai_vars, ml_vars>>

\* one iteration of `for col in cols_manual`:
\* cleaned_manual = <operation>(cleaned_manual, [col], ...); an exception
\* ends the handler
ManualOutlierStep ==
    /\ pc = "manual_outliers"
    /\ i <= Len(cols)
    /\ LET res == OutlierOp(heap, cleaned, op.method, <<cols[i]>>, op.z10, {session_df, cleaned})
       IN IF res.exc # None
          THEN /\ heap' = Collect(heap, {session_df})
               /\ raised' = res.exc
               /\ pc' = "idle"
               /\ UNCHANGED cleaned
          ELSE /\ heap' = Collect(res.heap, {session_df, res.ret})
               /\ cleaned' = res.ret
               /\ UNCHANGED <<raised, pc>>
    /\ i' = i + 1
    /\ UNCHANGED <<session_df, data_changed, op, prev_op, df, df_clean, cols, total, log,
                   stats_before, before, masks, nops, call, ai_vars, ml_vars>>

\* st.session_state["df"] = cleaned_manual
ManualOutlierReturn ==
    /\ pc = "manual_outliers"
    /\ i > Len(cols)
    /\ session_df' = cleaned
    /\ pc' = "idle"
    /\ UNCHANGED <<heap, data_changed, op, prev_op, df, df_clean, cols, i, total, log,
                   stats_before, cleaned, before, raised, masks, nops, call, ai_vars, ml_vars>>

\* The pages of one session after an upload of CallRows rows: one run of a
\* handler of the missing-value page or of the outlier page.  The column "masked"
\* holds a value that the largest value of the column hides from the IQR
\* bounds.
PageKindRows == {<<"example", "masked", "text">>,
                 <<"masked", "low_out", "ramp">>,
                 <<"skewed", "ramp", "masked">>}
PageMissingSets == {{}, {2}}
\* what st.multiselect over numeric_cols returns: columns in the order chosen
PageColLists == {<<>>, <<"a">>, <<"b">>, <<"a", "b">>, <<"b", "a">>, <<"a", "c">>,
                 <<"c", "b", "a">>}

PageInit ==
    /\ call = NoCall
    /\ \E kr \in PageKindRows : \E missing \in [LabelSet -> PageMissingSets] :
          heap = [r \in Refs |-> IF r = 1 THEN Upload(CallRows, ByLabel(kr), missing) ELSE Null]
    /\ InitSession

PageNext ==
    \/ /\ nops = 0
       /\ \E target \in {None} \cup LabelSet : RunAutoCleaning(target, MaxEngineOps)
    \/ AutoCleanStep
    \/ AutoCleanReturn
    \/ /\ nops = 0
       /\ \E action \in ManualActions, cs \in ColLists :
             \E method \in (IF action = "fill_na" THEN FillMethods ELSE {None}) :
                ApplyManualCleaning(action, cs, method)
    \/ /\ nops = 0
       /\ \E z10 \in ZThresholds, const_is_nan \in BOOLEAN :
             RunAutoOutlierRemoval(z10, const_is_nan)
    \/ AutoOutlierStep("none")
    \/ AutoOutlierReturn
    \/ /\ nops = 0
       /\ \E name \in OutlierOps, cs \in PageColLists :
             \E z10 \in (IF name = "remove_outliers_zscore" THEN ZThresholds ELSE {30}) :
                ApplyManualOutliers(name, cs, z10)
    \/ ManualOutlierStep
    \/ ManualOutlierReturn

PageSpec == PageInit /\ [][PageNext]_vars

\* ---------------------------------------------------------- modeling page
\* get_ns(name): the namespace dict, created empty if the session has none
get_ns(st, name) == IF name \in DOMAIN st THEN st ELSE Put(st, name, EmptyDict)

\* df_sig = (tuple(df.columns), df.shape)
DfSig(d) == <<d.columns, <<LenDf(d), Len(d.columns)>>>>

\* ensure_modeling_state that never looks whether the stored target is
\* still a column
ensure_modeling_state_stale(d, default_target, ms) ==
    LET ms1 == Put(ms, "df_sig", DfSig(d))
        ms3 == IF ~Truthy(Get(ms1, "target"))
               THEN IF Truthy(default_target) /\ default_target \in Range(d.columns)
                    THEN Put(ms1, "target", default_target)
                    ELSE IF Len(d.columns) > 0 THEN Put(ms1, "target", d.columns[1]) ELSE ms1
               ELSE ms1
    IN IF "dirty" \notin DOMAIN ms3 THEN Put(ms3, "dirty", FALSE) ELSE ms3

\* ensure_modeling_state(df, default_target) on the namespace dict ms; the
\* dict it returns (and leaves in the session)
ensure_modeling_state(d, default_target, ms) ==
    LET dataset_changed == "df_sig" \notin DOMAIN ms \/ ms["df_sig"] # DfSig(d)
        ms1 == IF dataset_changed THEN Put(ms, "df_sig", DfSig(d)) ELSE ms
        ms2 == IF dataset_changed /\ Get(ms1, "target") \notin Range(d.columns)
               THEN Put(Put(ms1, "target", None), "dirty", TRUE)
               ELSE ms1
        ms3 == IF ~Truthy(Get(ms2, "target"))
               THEN IF Truthy(default_target) /\ default_target \in Range(d.columns)
                    THEN Put(ms2, "target", default_target)
                    ELSE IF Len(d.columns) > 0 THEN Put(ms2, "target", d.columns[1]) ELSE ms2
               ELSE ms2
    IN IF "dirty" \notin DOMAIN ms3 THEN Put(ms3, "dirty", FALSE) ELSE ms3

\* sticky_selectbox(ns, "target", options) when the selectbox returns
\* choice: [ns, value, changed]
sticky_selectbox(ns_dict, options, choice) ==
    IF Len(options) = 0 THEN [ns |-> ns_dict, value |-> None, changed |-> FALSE]
    ELSE LET saved == IF "target" \in DOMAIN ns_dict THEN ns_dict["target"] ELSE options[1]
             changed == choice # saved
         IN [ns      |-> IF changed THEN Put(Put(ns_dict, "target", choice), "dirty", TRUE)
                         ELSE ns_dict,
             value   |-> choice,
             changed |-> changed]

\* mark_model_trained(): ms["dirty"] = False
mark_model_trained(st) ==
    LET st1 == get_ns(st, "modeling_state")
    IN Put(st1, "modeling_state", Put(st1["modeling_state"], "dirty", FALSE))

\* split_features_by_type(df, feature_cols): df[c] of every feature column
SplitErr(d, feature_cols) == KeyErr(d, Range(feature_cols))

\* One run of the modeling page on the session's dataset.  choice is what
\* the target selectbox returns, train whether the train button was pressed,
\* ok whether the training inside the try block went through.  page says
\* how far the run came:
\*   target_failed   df[target_col] raised (no column to choose)
\*   not_binary      st.stop() after the target has more than two values
\*   no_features     st.stop() after no feature column is left
\*   no_model        the end, without a stored training result
\*   rendered        the end, through the section of the stored result
\*   render_failed   split_features_by_type raised inside that section
ModelingPage(choice, train, ok) ==
    /\ pc = "idle"
    /\ LET d       == heap[session_df]
           st1     == get_ns(session_state, "modeling_state")
           ms      == ensure_modeling_state(d, None, st1["modeling_state"])
           sel     == sticky_selectbox(ms, d.columns, choice)
           st2     == Put(st1, "modeling_state", sel.ns)
           target_col   == sel.value
           feature_cols == SelectSeq(d.columns, LAMBDA c : c # target_col)
           trained == [target_col |-> target_col, feature_cols |-> feature_cols]
           st3     == IF train /\ ok THEN mark_model_trained(Put(st2, "modeling", trained))
                      ELSE st2
       IN /\ choice \in Range(d.columns) \cup (IF Len(d.columns) = 0 THEN {None} ELSE {})
          /\ IF KeyErr(d, {target_col}) # None
             THEN session_state' = st2 /\ page' = "target_failed"
             ELSE IF Nunique(d, target_col) > 2
             THEN session_state' = st2 /\ page' = "not_binary"
             ELSE IF Len(feature_cols) = 0
             THEN session_state' = st2 /\ page' = "no_features"
             ELSE /\ session_state' = st3
                  /\ page' = IF "modeling" \notin DOMAIN st3 THEN "no_model"
                             ELSE IF SplitErr(d, st3["modeling"].feature_cols) # None
                             THEN "render_failed"
                             ELSE "rendered"
    /\ UNCHANGED <<engine_vars, ai_vars>>

\* A session that goes back and forth between the modeling page and the
\* pages that replace the dataset; the dataset is replaced once.  The upload has CallRows rows; a column
\* "binary" holds two values, so that it can be the target of a training.
ModelingKindRows == {<<"binary", "ramp", "text">>,
                     <<"ramp", "binary", "binary">>}

ModelingInit ==
    /\ call = NoCall
    /\ \E kr \in ModelingKindRows : \E missing \in [LabelSet -> PageMissingSets] :
          heap = [r \in Refs |-> IF r = 1 THEN Upload(CallRows, ByLabel(kr), missing) ELSE Null]
    /\ InitSession

ModelingNext ==
    \/ \E choice \in LabelSet \cup {None}, train \in BOOLEAN, ok \in BOOLEAN :
          ModelingPage(choice, train, ok)
    \/ /\ nops = 0
       /\ \E action \in ManualActions, cs \in ColLists :
             \E method \in (IF action = "fill_na" THEN FillMethods ELSE {None}) :
                ApplyManualCleaning(action, cs, method)
    \/ /\ nops = 0
       /\ \E name \in OutlierOps, cs \in PageColLists : ApplyManualOutliers(name, cs, 30)
    \/ ManualOutlierStep
    \/ ManualOutlierReturn

ModelingSpec == ModelingInit /\ [][ModelingNext]_vars

\* ------------------------------------------------------------- AI helper
\* Two sessions of one server process.  What the user of a session types,
\* and the dataset a session uploads, are the session's own.
QuestionOf == [A |-> "question of A", B |-> "question of B"]
DatasetOf == [A |-> "dataset of A", B |-> "dataset of B"]
SummaryOf == [A |-> "summary of the dataset of A", B |-> "summary of the dataset of B"]
StructureOf == [A |-> "structure of the dataset of A", B |-> "structure of the dataset of B"]

\* update_context(key, value): context[key] = value
update_context(ctx, key, value) ==
    [k \in DOMAIN ctx \cup {key} |-> IF k = key THEN value ELSE ctx[k]]

\* the request of get_chatgpt_response / chat_only: the message is appended
\* to chat_history, the whole of chat_history is posted, and the reply is
\* appended when the API gave one; [chat_history, posted, answer]
Ask(history, message, ok) ==
    LET sent == Append(history, message)
        reply == [role |-> "assistant", content |-> "reply", context |-> <<>>]
    IN [chat_history |-> IF ok THEN Append(sent, reply) ELSE sent,
        posted       |-> sent,
        answer       |-> IF ok THEN "reply" ELSE "error"]

\* get_chatgpt_response(prompt): the prompt goes out with the whole context
get_chatgpt_response(history, ctx, prompt, ok) ==
    Ask(history, [role |-> "user", content |-> prompt, context |-> ctx], ok)

\* chat_only(message)
chat_only(history, message, ok) ==
    Ask(history, [role |-> "user", content |-> message, context |-> <<>>], ok)

\* app.py, upload page: st.session_state["df"] = df, the summary is stored
\* in the session and update_context("data_summary", summary) is called
LoadData(s) ==
    /\ ss[s].df = None
    /\ ss' = [ss EXCEPT ![s].df = DatasetOf[s], ![s].data_summary = SummaryOf[s]]
    /\ context' = update_context(context, "data_summary", SummaryOf[s])
    /\ UNCHANGED <<engine_vars, ml_vars, chat_history, posted>>

\* app.py, upload page: notify_ai_dataset_structure(df) sends the structure
\* of the session's dataset with get_chatgpt_response and stores it with
\* update_context("dataset_structure", info)
NotifyAi(s, ok) ==
    /\ ss[s].df # None
    /\ Len(chat_history) + 2 <= MaxChat
    /\ LET r == get_chatgpt_response(chat_history, context, StructureOf[s], ok)
       IN /\ chat_history' = r.chat_history
          /\ posted' = [posted EXCEPT ![s] = r.posted]
    /\ context' = update_context(context, "dataset_structure", StructureOf[s])
    /\ UNCHANGED <<engine_vars, ml_vars, ss>>

\* app.py, chat page: the question and the answer are appended to
\* st.session_state.chat_history, the answer is chat_only(question)
Chat(s, ok) ==
    /\ Len(chat_history) + 2 <= MaxChat
    /\ LET r == chat_only(chat_history, QuestionOf[s], ok)
       IN /\ chat_history' = r.chat_history
          /\ posted' = [posted EXCEPT ![s] = r.posted]
          /\ ss' = [ss EXCEPT ![s].chat_history =
                       Append(Append(@, [text |-> QuestionOf[s], sender |-> "user"]),
                              [text |-> r.answer, sender |-> "ai"])]
    /\ UNCHANGED <<engine_vars, ml_vars, context>>

\* app.py, chat page, "Очистить чат": reset_chat_history()
ClearChat(s) ==
    /\ ss[s].chat_history # <<>>
    /\ ss' = [ss EXCEPT ![s].chat_history = <<>>]
    /\ UNCHANGED <<engine_vars, ml_vars, chat_history, context, posted>>

SessionInit ==
    /\ heap = [r \in Refs |-> Null]
    /\ call = NoCall
    /\ InitSession

\* the handlers of the two sessions, interleaved
SessionNext ==
    \E s \in Sessions :
        \/ LoadData(s)
        \/ \E ok \in BOOLEAN : NotifyAi(s, ok)
        \/ \E ok \in BOOLEAN : Chat(s, ok)
        \/ ClearChat(s)

SessionSpec == SessionInit /\ [][SessionNext]_vars

\* ================================================================ claims
\* the dataset the handler was called with, and the one it returned
Input == heap[df]
Output == heap[session_df]
AutoCleanDone == pc = "idle" /\ op.name = "auto_clean"
\* a step of the loop of standard_auto_cleaning that evaluates a column with
\* missing cells
Evaluates == pc = "auto_clean" /\ i <= Len(cols) /\ IsnaSum(heap[df_clean], cols[i]) > 0
LogColumns(l) == [k \in 1..Len(l) |-> l[k].column]

\* C1: in every loop step that evaluates a column with missing cells, the
\* percentage written to the log is the column's current missing count
\* over the row count df_clean has at that moment.
C1_PctAgainstCurrentRows ==
    [][Evaluates =>
         /\ Len(log') = Len(log) + 1
         /\ Last(log').pct_missing =
              Round1(IsnaSum(heap[df_clean], cols[i]), LenDf(heap[df_clean]))]_vars

\* C2: when auto_clean returns and the target is a column of the input, the
\* result has the target column and the target has no missing cell.
C2_TargetKeptAndComplete ==
    (AutoCleanDone /\ op.target \in Range(Input.columns)) =>
        /\ op.target \in Range(Output.columns)
        /\ IsnaSum(Output, op.target) = 0

\* C2 witness: a target that is not the first column, at least half missing
C2_Witness ==
    /\ AutoCleanDone
    /\ op.target = Labels[2]
    /\ op.target \in Range(Input.columns)
    /\ IsnaSum(Input, op.target) * 100 >= 50 * LenDf(Input)
    /\ LenDf(Output) > 0

\* C3 (as stated): when auto_clean returns, every column that is at least
\* 50% missing in the input is absent from the result, whatever the target.
C3_HalfMissingAbsent ==
    AutoCleanDone =>
        \A c \in Range(Input.columns) :
            (LenDf(Input) > 0 /\ IsnaSum(Input, c) * 100 >= 50 * LenDf(Input))
                => c \notin Range(Output.columns)

\* C3 (amended): every non-target column whose count of cells still missing
\* when the pass evaluates it (the missing_count of its log entry) is at
\* least 50% of the input's row count is absent from the result.
C3_HalfMissingAtEvaluationAbsent ==
    AutoCleanDone =>
        \A k \in 1..Len(log) :
            (log[k].column # op.target /\ log[k].missing_count * 100 >= 50 * LenDf(Input))
                => log[k].column \notin Range(Output.columns)

\* C3 witness: a non-target column was dropped after rows had been dropped
C3_Witness ==
    /\ AutoCleanDone
    /\ LenDf(Output) < LenDf(Input)
    /\ \E k \in 2..Len(log) :
          /\ log[k].column # op.target
          /\ log[k].missing_count * 100 >= 50 * LenDf(Input)
          /\ log[k].missing_count < IsnaSum(Input, log[k].column)
          /\ log[k].column \notin Range(Output.columns)

\* C4 (as stated): auto_clean applied to its own output, with the same
\* target, returns that dataset and an empty log.
C4_Idempotent ==
    (AutoCleanDone /\ prev_op.name = "auto_clean" /\ prev_op.target = op.target) =>
        (log = <<>> /\ Output = Input)

\* C4 (amended): auto_clean applied to its own output, with the same target,
\* returns that dataset and an empty log when the first log has no entry of
\* a column left as it was (20-50% band, or mode undefined).
C4_IdempotentWhenNothingDeferred ==
    (/\ AutoCleanDone /\ prev_op.name = "auto_clean" /\ prev_op.target = op.target
     /\ \A k \in 1..Len(prev_op.log) :
           prev_op.log[k].action.kind \notin {"unchanged", "not_filled_mode_empty"}) =>
        (log = <<>> /\ Output = Input)

\* C4 witness: a second pass after a first pass that dropped rows, filled
\* and dropped a column, deferring nothing
C4_Witness ==
    /\ AutoCleanDone /\ prev_op.name = "auto_clean" /\ prev_op.target = op.target
    /\ Len(prev_op.log) = 3
    /\ \A k \in 1..Len(prev_op.log) :
           prev_op.log[k].action.kind \notin {"unchanged", "not_filled_mode_empty"}
    /\ \E k \in 1..Len(prev_op.log) : prev_op.log[k].action.kind = "column_dropped"
    /\ \E k \in 1..Len(prev_op.log) : prev_op.log[k].action.kind = "filled_mode"

\* the action a loop step that evaluates a column with missing cells must
\* take when pct = 100 * miss / rows: the first that matches in the order
\* target, < 5, < 20, >= 50, otherwise
FirstMatch(miss, rows) ==
    LET d    == heap[df_clean]
        d2   == heap'[df_clean]
        col  == cols[i]
        kind == Last(log').action.kind
        kept(r) == d.data[col][r] # NaN
        SameCells(cs) == \A c \in cs : \A r \in Rows(d2) : d2.data[c][r] = d.data[c][r]
        RowsDropped ==
            /\ d2.columns = d.columns
            /\ d2.index = SelectSeq(d.index, kept)
            /\ SameCells(Range(d.columns))
    IN /\ Len(log') = Len(log) + 1
       /\ IF col = op.target
            THEN kind = "target_rows_dropped" /\ RowsDropped
          ELSE IF miss * 100 < 5 * rows
            THEN kind = "rows_dropped" /\ RowsDropped
          ELSE IF miss * 100 < 20 * rows
            THEN /\ kind \in {"filled_median", "filled_mode", "not_filled_mode_empty"}
                 /\ d2.columns = d.columns
                 /\ d2.index = d.index
                 /\ SameCells(Range(d.columns) \ {col})
                 /\ \A r \in Rows(d) : kept(r) => d2.data[col][r] = d.data[col][r]
          ELSE IF miss * 100 >= 50 * rows
            THEN /\ kind = "column_dropped"
                 /\ d2.columns = SelectSeq(d.columns, LAMBDA c : c # col)
                 /\ d2.index = d.index
                 /\ SameCells(Range(d2.columns))
          ELSE kind = "unchanged" /\ d2 = d

\* C5: a loop step that evaluates a column with missing cells applies exactly
\* one action, the first that matches in the order target, < 5, < 20, >= 50,
\* otherwise, for the column's missing percentage: its missing cells over
\* the rows of the working dataset at that moment.
C5_FirstMatchAction ==
    [][Evaluates => FirstMatch(IsnaSum(heap[df_clean], cols[i]), LenDf(heap[df_clean]))]_vars

\* C5 with the percentage the pass computes (missing cells over total, the
\* row count taken before the loop): the order of the actions itself
C5_FirstMatchOnComputedPct ==
    [][Evaluates => FirstMatch(IsnaSum(heap[df_clean], cols[i]), total)]_vars

\* C6 (as stated): the returned log has exactly one entry for every column
\* of the input with a missing cell, none for the others, in column order.
C6_OneEntryPerMissingInputColumn ==
    AutoCleanDone =>
        LogColumns(log) = SelectSeq(Input.columns, LAMBDA c : IsnaSum(Input, c) > 0)

\* C6 (amended): the log gets exactly one entry for every column that still
\* has a missing cell when the pass evaluates it (after the row drops made
\* for earlier columns) and none for any other column; the columns are
\* evaluated, and so logged, in the input's column order.
C6_OneEntryPerColumnMissingAtEvaluation ==
    [][(pc = "auto_clean" /\ i <= Len(cols)) =>
        /\ cols = heap[df].columns
        /\ i' = i + 1
        /\ IF IsnaSum(heap[df_clean], cols[i]) > 0
           THEN /\ Len(log') = Len(log) + 1
                /\ SubSeq(log', 1, Len(log)) = log
                /\ Last(log').column = cols[i]
                /\ Last(log').missing_count = IsnaSum(heap[df_clean], cols[i])
           ELSE log' = log]_vars

\* C6 witness: a column with missing cells in the input has no log entry
C6_Witness ==
    /\ AutoCleanDone
    /\ Len(log) >= 2
    /\ \E c \in Range(Input.columns) :
          IsnaSum(Input, c) > 0 /\ c \notin Range(LogColumns(log))

\* C7: when exactly one column of the input has missing cells, it is not
\* the target and it is less than 5% missing, the result has that column
\* complete, as many rows fewer as the column had missing cells, and all
\* the columns of the input.
C7_SingleLowMissingColumn ==
    AutoCleanDone =>
        \A c \in Range(Input.columns) :
            (/\ c # op.target
             /\ IsnaSum(Input, c) > 0
             /\ IsnaSum(Input, c) * 100 < 5 * LenDf(Input)
             /\ \A o \in Range(Input.columns) \ {c} : IsnaSum(Input, o) = 0) =>
                /\ Output.columns = Input.columns
                /\ IsnaSum(Output, c) = 0
                /\ LenDf(Output) = LenDf(Input) - IsnaSum(Input, c)

\* C7 witness: such a pass returned
C7_Witness ==
    /\ AutoCleanDone
    /\ \E c \in Range(Input.columns) :
          /\ c # op.target
          /\ IsnaSum(Input, c) > 0
          /\ IsnaSum(Input, c) * 100 < 5 * LenDf(Input)
          /\ \A o \in Range(Input.columns) \ {c} : IsnaSum(Input, o) = 0
          /\ LenDf(Output) < LenDf(Input)

\* C9: the summary run_auto_cleaning returns describes the dataset it was
\* called with: one record per column with a missing cell, none for the
\* others, in column order, with the count of missing cells and the
\* percentage 100*count/rows rounded to one decimal (held in tenths).
C9_SummaryOfInput ==
    (pc = "auto_clean" \/ AutoCleanDone) =>
        /\ LogColumns(stats_before) = SelectSeq(Input.columns, LAMBDA c : IsnaSum(Input, c) > 0)
        /\ \A k \in 1..Len(stats_before) :
             LET m == IsnaSum(Input, stats_before[k].column)
                 e == stats_before[k].pct_missing * LenDf(Input) - 1000 * m
             IN /\ stats_before[k].missing_count = m
                /\ 2 * e <= LenDf(Input)
                /\ -2 * e <= LenDf(Input)

\* C9 witness: a summary that leaves a column out and holds a rounded
\* percentage, after a pass that changed the dataset
C9_Witness ==
    /\ AutoCleanDone
    /\ Output # Input
    /\ Len(stats_before) \in 1..(Len(Input.columns) - 1)
    /\ \E k \in 1..Len(stats_before) :
          stats_before[k].pct_missing * LenDf(Input) # 1000 * stats_before[k].missing_count

\* what a loop step must do that evaluates a column in the impute band
Imputes ==
    LET d    == heap[df_clean]
        d2   == heap'[df_clean]
        col  == cols[i]
        s    == d.data[col]
        nn   == {r \in Rows(d) : s[r] # NaN}
        n    == Cardinality(nn)
        act  == Last(log').action
        cnt(v) == Cardinality({r \in nn : s[r] = v})
        IsMedian(m) == /\ 2 * Cardinality({r \in nn : s[r] < m}) <= n
                       /\ 2 * Cardinality({r \in nn : s[r] > m}) <= n
        IsMode(m) == /\ \E r \in nn : s[r] = m
                     /\ \A r \in nn : cnt(s[r]) <= cnt(m)
        FilledWith(v) ==
            d2 = [d EXCEPT !.data[col] = [r \in Rows(d) |-> IF s[r] = NaN THEN v ELSE s[r]]]
    IN /\ d2.index = d.index
       /\ d2.columns = d.columns
       /\ IF d.dtypes[col] = "float64" /\ Cardinality({s[r] : r \in nn}) >= 20
            THEN /\ act.kind = "filled_median" /\ IsMedian(act.arg) /\ FilledWith(act.arg)
                 /\ IsnaSum(d2, col) = 0
          ELSE IF nn # {}
            THEN /\ act.kind = "filled_mode" /\ IsMode(act.arg) /\ FilledWith(act.arg)
                 /\ IsnaSum(d2, col) = 0
          ELSE act.kind = "not_filled_mode_empty" /\ d2 = d

\* the column a loop step evaluates is no target and 5 <= pct < 20 for
\* pct = 100 * miss / rows
InBand(miss, rows) ==
    /\ Evaluates
    /\ cols[i] # op.target
    /\ miss * 100 >= 5 * rows
    /\ miss * 100 < 20 * rows

\* C10: a loop step that evaluates a column in the impute band (non-target,
\* 5 <= pct < 20 for its missing cells over the rows of the working dataset)
\* keeps rows and columns; it fills the missing cells with the median when
\* the column is numeric with at least 20 distinct non-missing values,
\* otherwise with the mode, and the column is complete; with no mode it
\* leaves the column as it is and logs that.
C10_ImputeBand ==
    [][InBand(IsnaSum(heap[df_clean], cols[i]), LenDf(heap[df_clean])) => Imputes]_vars

\* C10 with the percentage the pass computes (missing cells over total)
C10_ImputeBandOnComputedPct ==
    [][InBand(IsnaSum(heap[df_clean], cols[i]), total) => Imputes]_vars

\* C8: no step of any operation of either engine changes the dataset object
\* the caller passed in (the session's dataset while the operation runs): its
\* rows, columns and cells, missing ones included, stay as they were; a
\* change shows only in the object the operation returns.
C8_CallerDatasetUnmodified == [][heap'[session_df] = heap[session_df]]_vars

\* an operation has returned a dataset that differs from the caller's, and
\* the caller's object is still there, as it was handed in
C8_Witness ==
    /\ pc = "idle"
    /\ op.name \in {"fill_na", "cap_outliers", "auto_outliers", "auto_clean", "drop_rows",
                    "remove_outliers_zscore"}
    /\ df # session_df
    /\ heap[df] # Null
    /\ heap[df] # heap[session_df]
\* ---------------------------------------------------------------- C11
\* a manual missing-value operation with a column list has returned or raised
ManualListOps == {"drop_rows", "drop_cols_na", "drop_selected_cols", "fill_na"}
ManualDone == pc = "idle" /\ nops > 0 /\ op.name \in ManualListOps
\* the names of a list that are columns of the dataset, in the list's order
Known(d, cs) == SelectSeq(cs, LAMBDA c : c \in Range(d.columns))
\* what the operation makes of the dataset when only the known names count
OnKnown(d, name, cs, method) ==
    CASE name = "drop_rows"    -> Dropna(d, Range(Known(d, cs)))
      [] name = "fill_na"      -> FillNaCols(d, Known(d, cs), 1, method, TypedText)
      [] OTHER                 -> DropColumns(d, Range(Known(d, cs)))

\* C11: drop_rows_na, drop_cols_na, drop_selected_cols and fill_na (mean,
\* median, mode, constant, unknown) never raise, whether the column list is
\* empty, holds names that are no columns, or names a column with only
\* missing cells: they return the dataset with the operation applied to the
\* names that are columns, the other names ignored.
C11_ManualOpsNeverRaise ==
    ManualDone =>
        /\ raised = None
        /\ Output = OnKnown(Input, call.name, call.cols, call.method)

\* drop_rows_na was called with a name that is no column and with a column
\* of only missing cells, and returned a dataset without rows
C11_Witness ==
    /\ ManualDone
    /\ op.name = "drop_rows"
    /\ "z" \in Range(call.cols)
    /\ \E c \in Range(Known(Input, call.cols)) : NotNa(Input, c) = {}
    /\ LenDf(Input) = CallRows
    /\ raised = None
    /\ LenDf(Output) = 0

\* ---------------------------------------------------------------- C12
\* an outlier operation with a column list has returned or raised
OutlierListDone == pc = "idle" /\ nops > 0 /\ op.name \in OutlierOps \cup DetectOps
\* the list is empty or holds a name that is no column
BadList(d, cs) == cs = <<>> \/ \E c \in Range(cs) : c \notin Range(d.columns)

\* C12: detect_outliers_iqr, detect_outliers_zscore, remove_outliers_iqr,
\* remove_outliers_zscore, cap_outliers and remove_outliers_percentile,
\* called with an empty column list or with a name that is no column, never
\* raise: the dataset is returned unchanged, and no mask is made for a name
\* that is no column.
C12_BadListIsNoOp ==
    (OutlierListDone /\ BadList(Input, call.cols)) =>
        /\ raised = None
        /\ op.name \in OutlierOps => Output = Input
        /\ op.name \in DetectOps => DOMAIN masks = Range(Known(Input, call.cols))

\* ---------------------------------------------------------------- C13
FillDone == pc = "idle" /\ nops > 0 /\ op.name = "fill_na"
\* how often the value v stands in the column
Count(d, c, v) == Cardinality({r \in Rows(d) : d.data[c][r] = v})
\* v is a non-missing value of the column that no other one outnumbers
MostFrequent(d, c, v) ==
    /\ v # NaN
    /\ Count(d, c, v) > 0
    /\ \A r \in NotNa(d, c) : Count(d, c, d.data[c][r]) <= Count(d, c, v)

\* C13: fill_na with mean or median leaves a listed column that is not
\* numeric as it was and raises nothing; with mode a missing cell of a listed
\* column gets a most frequent non-missing value of the column, and stays
\* missing when the column has none; with every method the non-missing
\* cells, the columns not listed and the rows are as before.
C13_FillNaEffect ==
    FillDone =>
        LET din  == Input
            dout == Output
            cs   == Range(call.cols)
        IN /\ raised = None
           /\ dout.index = din.index
           /\ dout.columns = din.columns
           /\ \A c \in Range(din.columns) :
                /\ c \notin cs => dout.data[c] = din.data[c] /\ dout.dtypes[c] = din.dtypes[c]
                /\ \A r \in NotNa(din, c) : dout.data[c][r] = din.data[c][r]
                /\ (c \in cs /\ call.method \in {"mean", "median"} /\ ~IsNumericDtype(din, c))
                      => dout.data[c] = din.data[c]
                /\ (c \in cs /\ call.method = "mode") =>
                      \A r \in Rows(din) \ NotNa(din, c) :
                         IF NotNa(din, c) = {} THEN dout.data[c][r] = NaN
                         ELSE MostFrequent(din, c, dout.data[c][r])

\* fill_na with median was called with a text column and a numeric column,
\* each with a missing cell: the numeric one was filled
C13_Witness ==
    /\ FillDone
    /\ call.method = "median"
    /\ \E c \in Range(call.cols) \cap Range(Input.columns) :
          ~IsNumericDtype(Input, c) /\ IsnaSum(Input, c) > 0 /\ IsnaSum(Output, c) > 0
    /\ \E c \in Range(call.cols) \cap Range(Input.columns) :
          IsNumericDtype(Input, c) /\ IsnaSum(Input, c) > 0 /\ IsnaSum(Output, c) = 0

\* fill_na with mode was called with a column of only missing cells and one
\* with a missing cell among others
C13_ModeWitness ==
    /\ FillDone
    /\ call.method = "mode"
    /\ LenDf(Input) = CallRows
    /\ \E c \in Range(call.cols) \cap Range(Input.columns) : NotNa(Input, c) = {}
    /\ \E c \in Range(call.cols) \cap Range(Input.columns) :
          IsnaSum(Input, c) = 1 /\ IsnaSum(Output, c) = 0

\* ---------------------------------------------------------------- C14
RemoveOps == {"remove_outliers_iqr", "remove_outliers_zscore"}
RemoveDone == pc = "idle" /\ nops > 0 /\ op.name \in RemoveOps /\ raised = None
\* the rows of column c the method of the call flags in the dataset d
FlaggedBy(d, c) ==
    IF call.name = "remove_outliers_iqr" THEN detect_outliers_iqr(d, c, 25, 75)
    ELSE detect_outliers_zscore(d, c, call.z10)

\* C14: remove_outliers_iqr and remove_outliers_zscore with several columns
\* compute the mask of every column on the dataset they were given and
\* remove, in one pass, exactly the rows flagged in at least one column.
C14_UnionOfInputMasks ==
    RemoveDone =>
        LET din  == Input
            dout == Output
            keep(r) == \A c \in Range(call.cols) : r \notin FlaggedBy(din, c)
        IN /\ dout.index = SelectSeq(din.index, keep)
           /\ dout.columns = din.columns
           /\ \A c \in Range(din.columns) : \A r \in Rows(dout) :
                 dout.data[c][r] = din.data[c][r]

\* two listed columns were flagged in different rows, and both rows went
C14_Witness ==
    /\ RemoveDone
    /\ \E c1, c2 \in Range(call.cols) :
          /\ FlaggedBy(Input, c1) \ FlaggedBy(Input, c2) # {}
          /\ FlaggedBy(Input, c2) \ FlaggedBy(Input, c1) # {}
          /\ Rows(Output) = Rows(Input) \ (FlaggedBy(Input, c1) \cup FlaggedBy(Input, c2))

\* ---------------------------------------------------------------- C15
IqrDetectDone == pc = "idle" /\ nops > 0 /\ op.name = "detect_outliers_iqr" /\ raised = None
\* the column holds 1, 2, 3, 4, 5, 100 (cells are in eighths)
ExampleValues == <<1, 2, 3, 4, 5, 100>>
IsExampleColumn(d, c) ==
    /\ LenDf(d) = Len(ExampleValues)
    /\ \A k \in 1..Len(ExampleValues) : d.data[c][d.index[k]] = 8 * ExampleValues[k]

\* C15: the mask of detect_outliers_iqr for a column has one entry per row
\* and is True exactly at the non-missing values strictly below
\* Q_low - 1.5*IQR or strictly above Q_high + 1.5*IQR, the quantiles taken
\* over the non-missing values; a value equal to a bound and a missing cell
\* are not flagged; of 1, 2, 3, 4, 5, 100 only 100 is flagged.
C15_IqrMask ==
    IqrDetectDone =>
        \A c \in Range(call.cols) :
            /\ DOMAIN masks[c] = Rows(Input)
            /\ \A r \in Rows(Input) :
                  masks[c][r] <=>
                     /\ Input.data[c][r] # NaN
                     /\ \/ 200 * Input.data[c][r] < IqrLower(Input, c, 25, 75, 100)
                        \/ 200 * Input.data[c][r] > IqrUpper(Input, c, 25, 75, 100)
            /\ IsExampleColumn(Input, c) =>
                  {r \in Rows(Input) : masks[c][r]} = {Input.index[Len(ExampleValues)]}

\* a column with a missing cell, a value equal to the upper bound that is
\* not flagged and a value above it that is
C15_Witness ==
    /\ IqrDetectDone
    /\ \E c \in Range(call.cols) :
          /\ \E r \in Rows(Input) : Input.data[c][r] = NaN /\ ~masks[c][r]
          /\ \E r \in NotNa(Input, c) :
                200 * Input.data[c][r] = IqrUpper(Input, c, 25, 75, 100) /\ ~masks[c][r]
          /\ \E r \in NotNa(Input, c) : masks[c][r]

\* the column 1, 2, 3, 4, 5, 100 was given to detect_outliers_iqr
C15_ExampleWitness ==
    /\ IqrDetectDone
    /\ \E c \in Range(call.cols) : IsExampleColumn(Input, c) /\ masks[c][Last(Input.index)]

\* ---------------------------------------------------------------- C16
\* the standard deviation of the column is zero or undefined: fewer than two
\* non-missing values, or all of them equal
ZeroStd(d, c) ==
    \/ Cardinality(NotNa(d, c)) < 2
    \/ \A r, q \in NotNa(d, c) : d.data[c][r] = d.data[c][q]
ZscoreDone == pc = "idle" /\ nops > 0
                /\ op.name \in {"detect_outliers_zscore", "remove_outliers_zscore"}
\* every listed name is a numeric column
AllNumeric(d, cs) == \A c \in Range(cs) : c \in Range(d.columns) /\ IsNumericDtype(d, c)

\* C16: for a column whose standard deviation is zero or undefined (all
\* values equal, one row, only missing cells) detect_outliers_zscore returns
\* a mask that is False in every row and raises nothing, and
\* remove_outliers_zscore on such columns removes no row.
C16_ZeroStdFlagsNothing ==
    (ZscoreDone /\ call.cols # <<>> /\ AllNumeric(Input, call.cols)) =>
        /\ raised = None
        /\ op.name = "detect_outliers_zscore" =>
              \A c \in Range(call.cols) :
                 ZeroStd(Input, c) =>
                    /\ DOMAIN masks[c] = Rows(Input)
                    /\ \A r \in Rows(Input) : ~masks[c][r]
        /\ (op.name = "remove_outliers_zscore"
              /\ \A c \in Range(call.cols) : ZeroStd(Input, c)) => Output = Input

\* remove_outliers_zscore was called with a column of equal values and kept
\* every row
C16_Witness ==
    /\ ZscoreDone
    /\ op.name = "remove_outliers_zscore"
    /\ call.cols # <<>>
    /\ AllNumeric(Input, call.cols)
    /\ \A c \in Range(call.cols) : ZeroStd(Input, c) /\ NotNa(Input, c) = Rows(Input)
    /\ LenDf(Input) = CallRows
    /\ raised = None
    /\ Output = Input

\* detect_outliers_zscore was called with a column of only missing cells
C16_AllMissingWitness ==
    /\ ZscoreDone
    /\ op.name = "detect_outliers_zscore"
    /\ LenDf(Input) = CallRows
    /\ \E c \in Range(call.cols) : c \in DOMAIN masks /\ NotNa(Input, c) = {}

\* detect_outliers_zscore was called on a dataset of one row
C16_SingleRowWitness ==
    /\ ZscoreDone
    /\ op.name = "detect_outliers_zscore"
    /\ LenDf(Input) = 1
    /\ \E c \in Range(call.cols) : c \in DOMAIN masks /\ NotNa(Input, c) = Rows(Input)

\* ---------------------------------------------------------------- C17
\* a pass of the loop of run_auto_outlier_removal over a column with a
\* non-missing value that logs no error
AutoPass ==
    /\ pc = "auto_outliers"
    /\ i' = i + 1
    /\ NotNa(heap[cleaned], cols[i]) # {}
    /\ Len(log') = Len(log) \/ "error" \notin DOMAIN Last(log')
\* the rows with |z| > z_thresh, none when the standard deviation is zero
\* or undefined
ZscoreFlags(d, c, z10) == IF ZeroStd(d, c) THEN {} ELSE ZscoreRows(d, c, z10)

FailedPass ==
    /\ pc = "auto_outliers"
    /\ i' = i + 1
    /\ \/ raised' # None
       \/ Len(log') > Len(log) /\ "error" \in DOMAIN Last(log')

\* C18: an exception raised while run_auto_outlier_removal processes a
\* column is caught: the log gets the entry {column, method "auto", error},
\* the working dataset stays as it was before the column, the loop goes on
\* to the next numeric column, and the call returns without raising once
\* every numeric column had its pass.
C18_FailureIsCaughtPerColumn ==
    [][/\ FailedPass =>
             /\ raised' = None
             /\ pc' = "auto_outliers"
             /\ heap'[cleaned'] = heap[cleaned]
             /\ Last(log') = [column |-> cols[i], method |-> "auto", error |-> "Exception"]
       /\ (pc = "auto_outliers" /\ pc' = "idle") =>
             /\ i > Len(cols)
             /\ raised' = None
             /\ heap'[session_df'] = heap[cleaned]]_vars

\* run_auto_outlier_removal has returned; a column failed, and a later
\* column had rows removed
C18_Witness ==
    /\ pc = "idle"
    /\ op.name = "auto_outliers"
    /\ raised = None
    /\ \E k \in 1..Len(log) : \E m \in (k + 1)..Len(log) :
          /\ "error" \in DOMAIN log[k]
          /\ "error" \notin DOMAIN log[m]
          /\ log[m].column # log[k].column
          /\ log[m].removed_count > 0
          /\ LenDf(Output) = LenDf(Input) - log[m].removed_count

\* ---------------------------------------------------------------- C19
CapDone == pc = "idle" /\ nops > 0 /\ op.name = "cap_outliers" /\ raised = None

\* C19: cap_outliers keeps the rows and their order; in a listed column a
\* non-missing value below Q1 - 1.5*IQR becomes that bound, a value above
\* Q3 + 1.5*IQR becomes that bound, a value within the bounds and a missing
\* cell stay; a column that is not listed stays as it was.
C19_CapClampsToBounds ==
    CapDone =>
        LET din  == Input
            dout == Output
        IN /\ dout.index = din.index
           /\ dout.columns = din.columns
           /\ \A c \in Range(din.columns) \ Range(call.cols) : dout.data[c] = din.data[c]
           /\ \A c \in Range(call.cols) : \A r \in Rows(din) :
                 LET x == din.data[c][r]
                     y == dout.data[c][r]
                 IN IF x = NaN THEN y = NaN
                    ELSE IF 200 * x < IqrLower(din, c, 25, 75, 100)
                         THEN 200 * y = IqrLower(din, c, 25, 75, 100)
                    ELSE IF 200 * x > IqrUpper(din, c, 25, 75, 100)
                         THEN 200 * y = IqrUpper(din, c, 25, 75, 100)
                    ELSE y = x

\* cap_outliers was called with a column that had a value below its lower
\* bound and a column that had a value above its upper bound; both values
\* were rewritten, a missing cell and a column not listed were left
C19_Witness ==
    /\ CapDone
    /\ \E c \in Range(call.cols) : \E r \in NotNa(Input, c) :
          /\ 200 * Input.data[c][r] < IqrLower(Input, c, 25, 75, 100)
          /\ Output.data[c][r] > Input.data[c][r]
    /\ \E c \in Range(call.cols) : \E r \in NotNa(Input, c) :
          /\ 200 * Input.data[c][r] > IqrUpper(Input, c, 25, 75, 100)
          /\ Output.data[c][r] < Input.data[c][r]
    /\ \E c \in Range(call.cols) : \E r \in Rows(Input) :
          Input.data[c][r] = NaN /\ Output.data[c][r] = NaN
    /\ Range(Input.columns) \ Range(call.cols) # {}
    /\ LenDf(Output) = LenDf(Input)

\* ---------------------------------------------------------------- C20
\* what the session s wrote itself: its question, its dataset's structure
OwnContent(s) == {QuestionOf[s], StructureOf[s]}
OwnContext(s) == {SummaryOf[s], StructureOf[s]}

\* C20: nothing a session wrote can be read by another session: the
\* dataset and the displayed chat of a session are its own, and every
\* request a session sends to the API holds only its own messages and its
\* own context.
C20_SessionsIsolated ==
    \A s \in Sessions :
        /\ ss[s].df \in {None, DatasetOf[s]}
        /\ \A k \in 1..Len(ss[s].chat_history) :
              ss[s].chat_history[k].sender = "user" => ss[s].chat_history[k].text = QuestionOf[s]
        /\ \A k \in 1..Len(posted[s]) :
              posted[s][k].role = "user" =>
                 /\ posted[s][k].content \in OwnContent(s)
                 /\ \A key \in DOMAIN posted[s][k].context :
                       posted[s][k].context[key] \in OwnContext(s)

\* ---------------------------------------------------------------- C21
\* the input of run_auto_outlier_removal without the rows the earlier
\* columns of the pass removed
Narrowed == Loc(heap[df], Rows(heap[cleaned]))
\* the rows the method chosen for column c on the dataset d flags
AutoFlags(d, c) ==
    IF SkewBelowOne(d, c, op.const_is_nan) THEN ZscoreFlags(d, c, op.z10)
    ELSE detect_outliers_iqr(d, c, 25, 75)

\* C21: in run_auto_outlier_removal skewness, mean/std or quantiles and the
\* mask of a column are computed on the working dataset, the input without
\* the rows removed for earlier columns of the pass: a row removed for an
\* earlier column is neither flagged nor counted for a later one.
C21_DetectionOnNarrowedDataset ==
    [][AutoPass =>
          LET flags == AutoFlags(Narrowed, cols[i])
          IN /\ heap[cleaned] = Narrowed
             /\ flags \subseteq Rows(heap[cleaned])
             /\ heap'[cleaned'] = Loc(Narrowed, Rows(Narrowed) \ flags)
             /\ \A k \in (Len(log) + 1)..Len(log') :
                   log'[k].removed_count = Cardinality(flags)]_vars

\* rows were removed for an earlier column, and the column now at turn is
\* flagged in other rows of the working dataset than of the input
C21_Witness ==
    /\ pc = "auto_outliers"
    /\ i <= Len(cols)
    /\ Rows(heap[cleaned]) # Rows(heap[df])
    /\ NotNa(heap[cleaned], cols[i]) # {}
    /\ AutoFlags(heap[cleaned], cols[i]) # {}
    /\ AutoFlags(heap[cleaned], cols[i]) # AutoFlags(heap[df], cols[i]) \cap Rows(heap[cleaned])

\* ---------------------------------------------------------------- C22
\* C22: in run_auto_outlier_removal a column whose method flags at least
\* one row gets the log entry {column, method, removed_count} and the
\* before-summary entry {column, removed_count}, and the flagged rows are
\* removed; a column with no flagged row gets no entry and removes nothing;
\* a column for which Z-score is chosen and whose standard deviation is zero
\* or undefined gets only the log entry with removed_count 0 and the note
\* "std=0", and removes nothing.
C22_EntriesExactlyWhenFlagged ==
    [][AutoPass =>
          LET d     == heap[cleaned]
              col   == cols[i]
              below == SkewBelowOne(d, col, op.const_is_nan)
              flags == AutoFlags(d, col)
          IN IF below /\ ZeroStd(d, col)
             THEN /\ log' = Append(log, [column |-> col, method |-> "Z-score",
                                         removed_count |-> 0, note |-> "std=0"])
                  /\ before' = before
                  /\ heap'[cleaned'] = d
             ELSE IF flags # {}
             THEN /\ log' = Append(log, [column |-> col,
                                         method |-> IF below THEN "Z-score" ELSE "IQR",
                                         removed_count |-> Cardinality(flags)])
                  /\ before' = Append(before, [column |-> col,
                                               removed_count |-> Cardinality(flags)])
                  /\ heap'[cleaned'] = Loc(d, Rows(d) \ flags)
             ELSE /\ log' = log
                  /\ before' = before
                  /\ heap'[cleaned'] = d]_vars

\* run_auto_outlier_removal has returned: one column had rows removed, one
\* had no flagged row and no entry, one has the note "std=0"
C22_Witness ==
    /\ pc = "idle"
    /\ op.name = "auto_outliers"
    /\ Len(before) = 1
    /\ Len(log) = 2
    /\ \E k \in 1..2 : /\ "note" \notin DOMAIN log[k]
                        /\ "error" \notin DOMAIN log[k]
                        /\ log[k].column = before[1].column
                        /\ log[k].removed_count = before[1].removed_count
                        /\ LenDf(Output) = LenDf(Input) - log[k].removed_count
    /\ \E k \in 1..2 : "note" \in DOMAIN log[k] /\ log[k].removed_count = 0
    /\ \E c \in Range(cols) :
          /\ NotNa(Output, c) # {}
          /\ \A k \in 1..2 : log[k].column # c

\* ---------------------------------------------------------------- C23
PercentileDone ==
    pc = "idle" /\ nops > 0 /\ op.name = "remove_outliers_percentile" /\ raised = None
\* the rows of d whose value in column c is missing or within the p_low and
\* p_high percentiles of the non-missing values of c in d
WithinOrMissing(d, c, pl, ph) ==
    {r \in Rows(d) :
        \/ d.data[c][r] = NaN
        \/ /\ 100 * d.data[c][r] >= QuantileTimes(d, c, pl, 100)
           /\ 100 * d.data[c][r] <= QuantileTimes(d, c, ph, 100)}
\* column after column, in list order, each on what the columns before left
RECURSIVE NarrowedByPercentiles(_, _, _, _, _)
NarrowedByPercentiles(d, cs, k, pl, ph) ==
    IF k > Len(cs) THEN d
    ELSE NarrowedByPercentiles(Loc(d, WithinOrMissing(d, cs[k], pl, ph)), cs, k + 1, pl, ph)

\* C23: remove_outliers_percentile takes the columns in list order; for each
\* it computes the two percentiles over the non-missing values of the
\* dataset as narrowed by the columns before, removes the rows whose value
\* lies outside them and keeps every other row, also the rows whose value
\* in the column is missing.
C23_PercentileKeepsMissing ==
    PercentileDone => Output = NarrowedByPercentiles(Input, call.cols, 1, 5, 95)

\* the same for lists of columns without a missing cell (holds)
C23_PercentileWithoutMissing ==
    (PercentileDone /\ \A c \in Range(call.cols) : NotNa(Input, c) = Rows(Input)) =>
        Output = NarrowedByPercentiles(Input, call.cols, 1, 5, 95)

\* ---------------------------------------------------------------- C24
\* run_auto_outlier_removal has returned, and no pass of its loop failed
AutoDoneNoError ==
    /\ pc = "idle"
    /\ op.name = "auto_outliers"
    /\ \A k \in 1..Len(log) : "error" \notin DOMAIN log[k]
\* the sum of removed_count over the entries of l that carry one
RECURSIVE SumRemoved(_, _)
SumRemoved(l, k) ==
    IF k > Len(l) THEN 0
    ELSE (IF "removed_count" \in DOMAIN l[k] THEN l[k].removed_count ELSE 0) + SumRemoved(l, k + 1)

\* C24: run_auto_outlier_removal returns rows of its input, in the input's
\* order, with every column and every cell as in the input; the number of
\* rows that went equals the sum of removed_count over the log, and every
\* entry of the before-summary has removed_count >= 1.
C24_RowAccounting ==
    AutoDoneNoError =>
        /\ LenDf(Input) - LenDf(Output) = SumRemoved(log, 1)
        /\ \A k \in 1..Len(before) : before[k].removed_count >= 1
        /\ Output.index = SelectSeq(Input.index, LAMBDA r : r \in Rows(Output))
        /\ Output.columns = Input.columns
        /\ \A c \in Range(Input.columns) : \A r \in Rows(Output) :
              Output.data[c][r] = Input.data[c][r]

\* two columns had rows removed, and the rows in between stayed
C24_Witness ==
    /\ AutoDoneNoError
    /\ Len(before) = 2
    /\ SumRemoved(log, 1) >= 3
    /\ LenDf(Output) = LenDf(Input) - SumRemoved(log, 1)
    /\ Output.index[1] # Input.index[1]


\* ---------------------------------------------------------------- C25
\* the log entries of the finished pass that record a fill of column c
FillEntries(c) ==
    {k \in 1..Len(log) : log[k].column = c /\ log[k].action.kind \in {"filled_median", "filled_mode"}}

\* the frame part of C25: the columns of the result are columns of the
\* input in the same order, its rows are rows of the input, and no cell
\* that held a value in the input holds another one in the result
OnlyRemoves ==
    /\ Output.columns = SelectSeq(Input.columns, LAMBDA c : c \in Range(Output.columns))
    /\ Rows(Output) \subseteq Rows(Input)
    /\ \A c \in Range(Output.columns) :
          /\ Output.dtypes[c] = Input.dtypes[c]
          /\ \A r \in Rows(Output) :
                Input.data[c][r] # NaN => Output.data[c][r] = Input.data[c][r]

\* C25 (as stated): when auto_clean returns it has only removed or filled:
\* columns and rows of the result are those of the input, in order, no
\* non-missing cell changed, and a cell that was missing is still missing
\* or holds the fill value the log records for its column.
C25_FilledWithRecordedValue ==
    AutoCleanDone =>
        /\ OnlyRemoves
        /\ \A c \in Range(Output.columns) : \A r \in Rows(Output) :
              (Input.data[c][r] = NaN /\ Output.data[c][r] # NaN) =>
                  \E k \in FillEntries(c) : Output.data[c][r] = Recorded(log[k].action)

\* C25 (amended): the same, but a filled cell holds the value that was
\* used: the mode as the log records it, or the median, of which the log
\* records the rounding to two decimals.
C25_OnlyRemovesOrFills ==
    AutoCleanDone =>
        /\ OnlyRemoves
        /\ \A c \in Range(Output.columns) : \A r \in Rows(Output) :
              (Input.data[c][r] = NaN /\ Output.data[c][r] # NaN) =>
                  \E k \in FillEntries(c) :
                      /\ Output.data[c][r] = log[k].action.arg
                      /\ log[k].action.kind = "filled_mode" =>
                            Recorded(log[k].action) = Output.data[c][r]
                      /\ log[k].action.kind = "filled_median" =>
                            Recorded(log[k].action) = Fmt2(Output.data[c][r])

\* C25 witness: a pass that dropped rows, filled one column with its median
\* and another with its mode
C25_Witness ==
    /\ AutoCleanDone
    /\ 0 < LenDf(Output) /\ LenDf(Output) < LenDf(Input)
    /\ \E k \in 1..Len(log) : log[k].action.kind = "filled_median"
    /\ \E k \in 1..Len(log) : log[k].action.kind = "filled_mode"
    /\ \E c \in Range(Output.columns) : \E r \in Rows(Output) :
          Input.data[c][r] = NaN /\ Output.data[c][r] # NaN


\* ---------------------------------------------------------------- C26
\* C26: every entry of the log of run_auto_outlier_removal carries a
\* removed_count, and the handler that sums item["removed_count"] over the
\* log returns without an exception, whatever the log (error entries
\* included).
C26_TotalDefinedForEveryLog ==
    op.name = "auto_outliers" =>
        /\ \A k \in 1..Len(log) : "removed_count" \in DOMAIN log[k]
        /\ pc = "idle" => op.total_removed_exc = None

\* the same for the logs of passes in which no column failed
C26_TotalDefinedWithoutErrorEntries ==
    (op.name = "auto_outliers" /\ \A k \in 1..Len(log) : "error" \notin DOMAIN log[k]) =>
        /\ \A k \in 1..Len(log) : "removed_count" \in DOMAIN log[k]
        /\ pc = "idle" => op.total_removed_exc = None


\* ---------------------------------------------------------------- C27
\* the handler that ran last has stored a new dataset in the session
Replaced == pc = "idle" /\ nops > 0 /\ session_df # df
CleaningHandlers == {"auto_clean"} \cup ManualActions
OutlierHandlers == {"auto_outliers", "manual_outliers"}

\* C27: in every state in which a cleaning or outlier handler has replaced
\* the dataset of the session, data_changed is true.
C27_DataChangedAfterReplacement ==
    (Replaced /\ op.name \in CleaningHandlers \cup OutlierHandlers) => data_changed

\* the same for the handlers of the missing-value page alone
C27_DataChangedAfterCleaning ==
    (Replaced /\ op.name \in CleaningHandlers) => data_changed

\* ---------------------------------------------------------------- C28
\* the manual outlier handler has stored the result of a removal by IQR or
\* Z-score over two or more columns
ManualRemovalDone ==
    /\ pc = "idle"
    /\ op.name = "manual_outliers"
    /\ op.method \in {"remove_outliers_iqr", "remove_outliers_zscore"}
    /\ Len(op.cols) >= 2
    /\ raised = None

\* what one call of the operation with the whole list returns for the
\* dataset the handler started from
SingleCall ==
    LET res == OutlierOp(Collect(heap, {df}), df, op.method, op.cols, op.z10, {df})
    IN res.heap[res.ret]

\* C28: the dataset the manual outlier handler stores, after one removal per
\* selected column on the narrowed dataset, is the dataset a single call of
\* remove_outliers_iqr / remove_outliers_zscore with the whole list returns.
C28_HandlerEqualsSingleCall ==
    ManualRemovalDone => heap[session_df] = SingleCall



\* ---------------------------------------------------------------- C29
\* the namespace dict of the modeling page, as get_ns hands it out
StoredState == get_ns(session_state, "modeling_state")["modeling_state"]
DefaultTargets == LabelSet \cup {None, "z"}

\* what a call of ensure_modeling_state on the session's dataset has to
\* leave, for the default target dt
EnsuresTarget(dt) ==
    LET d      == heap[session_df]
        before_ == StoredState
        ms     == ensure_modeling_state(d, dt, before_)
        stale  == "target" \in DOMAIN before_ /\ before_["target"] # None
                    /\ before_["target"] \notin Range(d.columns)
    IN /\ ms["target"] \in Range(d.columns)
       /\ stale => /\ ms["target"] = (IF dt \in Range(d.columns) THEN dt ELSE d.columns[1])
                   /\ ms["dirty"] = TRUE

\* C29: whatever replacements of the dataset, target selections and
\* trainings came before, a call of ensure_modeling_state on a dataset with
\* at least one column leaves a target that is a column of the dataset; a
\* stored target that is no column any more is replaced by the default
\* target, or the first column, and dirty is set.
C29_TargetIsAColumn ==
    (pc = "idle" /\ Len(heap[session_df].columns) >= 1) =>
        \A dt \in DefaultTargets : EnsuresTarget(dt)

\* C29 witness: after a training the target column was dropped, and the
\* page, run again, has replaced the target and set dirty
C29_Witness ==
    /\ pc = "idle"
    /\ "modeling" \in DOMAIN session_state
    /\ session_state["modeling"].target_col \notin Range(heap[session_df].columns)
    /\ StoredState # EmptyDict
    /\ StoredState["df_sig"] = DfSig(heap[session_df])
    /\ StoredState["target"] \in Range(heap[session_df].columns)
    /\ StoredState["dirty"] = TRUE


\* ---------------------------------------------------------------- C30
\* a step that is a run of the modeling page (the handlers of the other
\* pages count their runs in nops) and comes to the section that shows the
\* stored training result
RendersStored ==
    /\ engine_vars' = engine_vars
    /\ page' \in {"rendered", "render_failed"}

\* the stored target and the stored feature columns are columns of the
\* dataset of the session, and the section is shown to its end
StoredMatchesDataset ==
    /\ session_state'["modeling"].target_col \in Range(heap[session_df].columns)
    /\ Range(session_state'["modeling"].feature_cols) \subseteq Range(heap[session_df].columns)
    /\ page' = "rendered"

C30_StoredModelMatchesUpload == [][(RendersStored /\ nops = 0) => StoredMatchesDataset]_vars

====
